---- MODULE Spec2Model ----
(***************************************************************************)
(* MergeAI: the conflict-marker parser (ConflictDetector), the resolution *)
(* orchestrator (ConflictResolver), the providers (OllamaProvider,         *)
(* OpenAIProvider, ClaudeProvider), their manager (AIProviderManager) and  *)
(* the settings (ConfigurationManager).                                    *)
(*                                                                         *)
(* Text is a sequence of one-character strings; a document is the text of  *)
(* its lines joined by "\n".  Line and column numbers are 0-based as in    *)
(* the source; TLA+ sequences are 1-based, so line i is lines[i + 1].      *)
(***************************************************************************)
EXTENDS Integers, Sequences, FiniteSets, TLC

VARIABLES
    dpc,        \* detectConflictsInFile: position ("idle", "loop", "done")
    dtext,      \* detectConflictsInFile: document.getText()
    lines,      \* detectConflictsInFile: text.split('\n')
    i,          \* detectConflictsInFile: loop index
    det,        \* detectConflictsInFile: the locals of the loop
    detected,   \* detectConflictsInFile: the returned list
    workspace,  \* the texts of the workspace files when the command starts
    buffer,     \* the text of each open document
    dirty,      \* document.isDirty of each document
    pc,         \* resolveAllConflicts: position
    allConflicts,    \* resolveAllConflicts: entries of the map of detectAllConflicts
    fileIdx,         \* resolveAllConflicts: index of the current map entry
    sortedConflicts, \* resolveAllConflicts: sortedConflicts of the current file
    conflictIdx,     \* resolveAllConflicts: index in sortedConflicts
    resolvedCount,   \* resolveAllConflicts: resolvedCount
    results,         \* resolveAllConflicts: results
    token,           \* token.isCancellationRequested
    resolution,      \* resolveAllConflicts: resolution of the current conflict
    backend,         \* how the last provider.resolveConflict call settled
    callCount,       \* number of provider.resolveConflict calls issued
    faults,          \* number of failures of the backend, applyEdit and save so far
    summary,         \* the counts shown in the summary message
    returned,        \* resolveAllConflicts: the returned list
    onePc,           \* resolveConflict called on its own: position
    oneOutcome,      \* resolveConflict called on its own: how it settled
    qtext,      \* the queries of ConflictDetector: document.getText()
    qconflicts, \* the queries: the conflict list held by the caller
    qop,        \* the queries: the method called last
    qarg,       \* the queries: its arguments
    qresult,    \* the queries: the value it returned
    pkind,      \* a provider: its variant
    papiKey,    \* a provider: config.apiKey
    ppc,        \* a provider's resolveConflict: position
    prequests,  \* a provider: number of transport calls issued
    ptransport, \* a provider: how the transport call settled
    presult,    \* a provider's method: how it settled
    pop,        \* a provider: the method called
    pmodel,     \* a provider: config.model
    providerType,    \* AIProviderManager: configManager.getProviderType()
    secrets,         \* AIProviderManager: context.secrets, per hosted variant
    currentProvider, \* AIProviderManager: currentProvider
    tasks,           \* AIProviderManager: its asynchronous calls in progress
    constructed,     \* AIProviderManager: number of providers constructed
    managerCalls,    \* AIProviderManager: number of calls made by its clients
    orch,            \* ConflictResolver: its call in progress and the providers it used
    sdoc,            \* resolveConflict, getSuggestions: document.getText()
    sconflict,       \* resolveConflict, getSuggestions: the conflict
    slanguage,       \* resolveConflict, getSuggestions: document.languageId
    configuredContextLines, \* configManager.getContextLines()
    sop,             \* resolveConflict, getSuggestions: the method called
    spc,             \* resolveConflict, getSuggestions: position
    scount,          \* getSuggestions: count
    si,              \* getSuggestions: loop index
    sprovider,       \* resolveConflict, getSuggestions: provider
    scalls,          \* the calls of provider.resolveConflict issued
    suggestions,     \* getSuggestions: suggestions
    sreturned,       \* resolveConflict, getSuggestions: how it settled
    stored,          \* the values of the settings of 'mergeai' that are written
    config,          \* ConfigurationManager: this.config
    pendingUpdates,  \* the calls of this.config.update that have not settled
    cop,             \* ConfigurationManager: the method called last
    cresult,         \* ConfigurationManager: the value it returned
    lastSet,         \* the value last passed to the setter of each setting
    setCalls         \* number of setter calls

dvars == <<dpc, dtext, lines, i, det, detected>>

bvars == <<workspace, buffer, dirty, pc, allConflicts, fileIdx, sortedConflicts,
           conflictIdx, resolvedCount, results, token, resolution, backend,
           callCount, faults, summary, returned, onePc, oneOutcome>>

qvars == <<qtext, qconflicts, qop, qarg, qresult>>

pvars == <<pkind, papiKey, ppc, prequests, ptransport, presult, pop, pmodel>>

mvars == <<providerType, secrets, currentProvider, tasks, constructed,
           managerCalls, orch>>

svars == <<sdoc, sconflict, slanguage, configuredContextLines, sop, spc, scount,
           si, sprovider, scalls, suggestions, sreturned>>

cvars == <<stored, config, pendingUpdates, cop, cresult, lastSet, setCalls>>

vars == <<dvars, bvars, qvars, pvars, mvars, svars, cvars>>

-----------------------------------------------------------------------------
(* Bounds *)

MaxLines == 5
MaxFiles == 2
MaxConflicts == 2
MaxFaults == 2
MaxQueryLines == 3
MaxContext == 2
MaxManagerCalls == 1
MaxSets == 2
MaxVariantLines == 2

-----------------------------------------------------------------------------
(* Characters and strings *)

NL == "\n"
Whitespace == {" ", "\t", "\r", "\n"}
LineTerminator == {"\n", "\r"}

Rep(c, n) == [k \in 1..n |-> c]

RECURSIVE Join(_)
\* Array.prototype.join('\n')
Join(ls) ==
    IF Len(ls) = 0 THEN <<>>
    ELSE IF Len(ls) = 1 THEN ls[1]
    ELSE ls[1] \o <<NL>> \o Join(Tail(ls))

RECURSIVE NextNewline(_, _)
\* the position of the first newline at or after k, Len(text) + 1 when none
NextNewline(text, k) ==
    IF k > Len(text) \/ text[k] = NL THEN k ELSE NextNewline(text, k + 1)

RECURSIVE SplitFrom(_, _)
SplitFrom(text, from) ==
    LET k == NextNewline(text, from)
    IN  IF k > Len(text)
        THEN <<SubSeq(text, from, Len(text))>>
        ELSE <<SubSeq(text, from, k - 1)>> \o SplitFrom(text, k + 1)

\* String.prototype.split('\n'): the pieces between consecutive newlines,
\* always at least one
Split(text) == SplitFrom(text, 1)

-----------------------------------------------------------------------------
(* The marker patterns, ConflictDetector lines 227-230.  The patterns have *)
(* no flags: ^ and $ anchor at the ends of the tested string and . does    *)
(* not match a line terminator.                                            *)

\* the label has to begin with a character that is not whitespace
MatchesLabelledStrict(c, s) ==
    /\ Len(s) >= 9
    /\ \A k \in 1..7 : s[k] = c
    /\ \E w \in 8..(Len(s) - 1) :
          /\ \A k \in 8..w : s[k] \in Whitespace
          /\ s[w + 1] \notin Whitespace
          /\ \A k \in (w + 1)..Len(s) : s[k] \notin LineTerminator

\* /^c{7}\s+(.*)$/
MatchesLabelled(c, s) ==
    /\ Len(s) >= 8
    /\ \A k \in 1..7 : s[k] = c
    /\ \E w \in 8..Len(s) :
          /\ \A k \in 8..w : s[k] \in Whitespace
          /\ \A k \in (w + 1)..Len(s) : s[k] \notin LineTerminator

conflictStartPattern(s) == MatchesLabelled("<", s)
conflictSeparatorPattern(s) == s = Rep("=", 7)
conflictEndPattern(s) == MatchesLabelled(">", s)
conflictBasePattern(s) == MatchesLabelled("|", s)

IsMarker(s) ==
    \/ conflictStartPattern(s)
    \/ conflictSeparatorPattern(s)
    \/ conflictEndPattern(s)
    \/ conflictBasePattern(s)

-----------------------------------------------------------------------------
(* Lines used to build documents *)

StartLine == Rep("<", 7) \o <<" ", "H">>
SepLine   == Rep("=", 7)
EndLine   == Rep(">", 7) \o <<" ", "f">>
BaseLine  == Rep("|", 7) \o <<" ", "b">>
TextA     == <<"a">>
TextB     == <<"b">>
EmptyLine == <<>>

LineSet == {StartLine, SepLine, EndLine, BaseLine, TextA, EmptyLine}

RECURSIVE SeqsUpTo(_, _)
SeqsUpTo(S, n) ==
    IF n = 0 THEN {<<>>}
    ELSE LET shorter == SeqsUpTo(S, n - 1)
         IN  shorter \cup {Append(q, x) : q \in {p \in shorter : Len(p) = n - 1}, x \in S}

\* documents of 1..MaxLines lines
Docs == {d \in SeqsUpTo(LineSet, MaxLines) : Len(d) >= 1}

Block == <<StartLine, TextA, SepLine, TextA, EndLine>>

RECURSIVE DocsWithBlocks(_)
\* documents with n conflict blocks, each between plain lines
DocsWithBlocks(n) ==
    IF n = 0 THEN {<<TextA>>}
    ELSE {d \o Block \o <<TextA>> : d \in DocsWithBlocks(n - 1)}

\* the documents with up to MaxConflicts blocks
BlockDocs == UNION {DocsWithBlocks(n) : n \in 0..MaxConflicts}

\* lines that are nearly markers: seven marker characters followed only by
\* whitespace, by nothing, or directly by the label; eight marker characters;
\* a tab before the label; a separator with a label; an indented marker
VariantLines ==
    {Rep(c, 7) \o <<" ">> : c \in {"<", "|", ">", "="}}
        \cup {Rep(c, 7) : c \in {"<", "|", ">"}}
        \cup {Rep("<", 7) \o <<"H">>, Rep("<", 8) \o <<" ", "H">>,
              Rep(">", 7) \o <<"\t", "f">>, Rep("|", 7) \o <<" ", " ">>,
              SepLine \o <<" ", "x">>, <<" ">> \o StartLine, TextA}

\* documents of variant lines, alone and inside an open block
VariantDocs ==
    {d \in SeqsUpTo(VariantLines, MaxVariantLines) : Len(d) >= 1}
        \cup {<<StartLine>> \o d : d \in SeqsUpTo(VariantLines, MaxVariantLines)}

FilePath(f) == <<"file", f>>
FileOf(path) == path[2]

FileName == FilePath(1)

-----------------------------------------------------------------------------
(* ConflictDetector.detectConflictsInFile *)

\* a Partial<MergeConflict> is a function from the fields set so far
null == [isNull |-> TRUE]

SetField(c, f, v) == [x \in DOMAIN c \cup {f} |-> IF x = f THEN v ELSE c[x]]

Defined(c, f) == f \in DOMAIN c

MergeConflictFields ==
    {"startLine", "endLine", "currentStart", "currentEnd", "incomingStart",
     "incomingEnd", "separatorLine", "currentContent", "incomingContent",
     "filePath"}

\* lines 237-242
DetectLocals ==
    [inConflict |-> FALSE, currentConflict |-> null, section |-> "current",
     currentContent |-> <<>>, baseContent |-> <<>>, incomingContent |-> <<>>,
     conflicts |-> <<>>]

\* lines 247-258
StartBranch(st, n, fileName) ==
    [st EXCEPT !.inConflict = TRUE,
               !.currentConflict =
                   [startLine |-> n, currentStart |-> n + 1, filePath |-> fileName],
               !.section = "current",
               !.currentContent = <<>>,
               !.baseContent = <<>>,
               !.incomingContent = <<>>]

\* the current section is taken to end on the separator line
SeparatorBranchEndOnSeparator(st, n) ==
    [st EXCEPT !.currentConflict =
                   IF st.currentConflict # null
                   THEN SetField(SetField(SetField(st.currentConflict,
                            "currentEnd", n), "separatorLine", n),
                            "incomingStart", n + 1)
                   ELSE st.currentConflict,
               !.section = "incoming"]

\* lines 259-266
SeparatorBranch(st, n) ==
    [st EXCEPT !.currentConflict =
                   IF st.currentConflict # null
                   THEN SetField(SetField(SetField(st.currentConflict,
                            "currentEnd", n - 1), "separatorLine", n),
                            "incomingStart", n + 1)
                   ELSE st.currentConflict,
               !.section = "incoming"]

\* lines 267-269
BaseBranch(st, n) == [st EXCEPT !.section = "base"]

\* baseContent is assigned whether or not a base line was collected
FinishedConflictAlwaysBase(st, n) ==
    LET c1 == SetField(st.currentConflict, "endLine", n)
        c2 == SetField(c1, "incomingEnd", n - 1)
        c3 == SetField(c2, "currentContent", Join(st.currentContent))
        c4 == SetField(c3, "incomingContent", Join(st.incomingContent))
    IN  SetField(c4, "baseContent", Join(st.baseContent))

\* lines 272-281: the record pushed at the end marker
FinishedConflict(st, n) ==
    LET c1 == SetField(st.currentConflict, "endLine", n)
        c2 == SetField(c1, "incomingEnd", n - 1)
        c3 == SetField(c2, "currentContent", Join(st.currentContent))
        c4 == SetField(c3, "incomingContent", Join(st.incomingContent))
    IN  IF Len(st.baseContent) > 0
        THEN SetField(c4, "baseContent", Join(st.baseContent))
        ELSE c4

\* the record is put in front of the list
EndBranchUnshift(st, n) ==
    [st EXCEPT !.conflicts =
                   IF st.currentConflict # null
                   THEN <<FinishedConflict(st, n)>> \o st.conflicts
                   ELSE st.conflicts,
               !.inConflict = FALSE,
               !.currentConflict = null]

\* lines 270-283
EndBranch(st, n) ==
    [st EXCEPT !.conflicts =
                   IF st.currentConflict # null
                   THEN Append(st.conflicts, FinishedConflict(st, n))
                   ELSE st.conflicts,
               !.inConflict = FALSE,
               !.currentConflict = null]

\* every content line is attributed to the current section
ContentBranchOneBuffer(st, line) ==
    [st EXCEPT !.currentContent = Append(st.currentContent, line)]

\* lines 284-297
ContentBranch(st, line) ==
    CASE st.section = "current" ->
             [st EXCEPT !.currentContent = Append(st.currentContent, line)]
      [] st.section = "base" ->
             [st EXCEPT !.baseContent = Append(st.baseContent, line)]
      [] st.section = "incoming" ->
             [st EXCEPT !.incomingContent = Append(st.incomingContent, line)]

\* every other line is visited
NextIndexSkips(n) == n + 2

\* line 244: i++
NextIndex(n) == n + 1

\* one iteration of the loop, lines 245-297
ParseStep(st, n, line, fileName) ==
    IF conflictStartPattern(line) THEN StartBranch(st, n, fileName)
    ELSE IF st.inConflict /\ conflictSeparatorPattern(line) THEN SeparatorBranch(st, n)
    ELSE IF st.inConflict /\ conflictBasePattern(line) THEN BaseBranch(st, n)
    ELSE IF st.inConflict /\ conflictEndPattern(line) THEN EndBranch(st, n)
    ELSE IF st.inConflict THEN ContentBranch(st, line)
    ELSE st

\* a block still open at the end of input is flushed as it stands
DetectResultFlushOpen(st) ==
    IF st.currentConflict # null
    THEN Append(st.conflicts, st.currentConflict)
    ELSE st.conflicts

\* line 300: only the completed records are returned
DetectResult(st) == st.conflicts

RECURSIVE ParseFrom(_, _, _, _)
ParseFrom(st, ls, n, fileName) ==
    IF n >= Len(ls) THEN st
    ELSE ParseFrom(ParseStep(st, n, ls[n + 1], fileName), ls, NextIndex(n), fileName)

\* the whole function on a text
detectConflictsInFile(text, fileName) ==
    DetectResult(ParseFrom(DetectLocals, Split(text), 0, fileName))

-----------------------------------------------------------------------------
(* The parser as a state machine *)

DetectInit ==
    /\ dpc = "idle"
    /\ dtext \in {Join(d) : d \in Docs \cup BlockDocs \cup VariantDocs}
    /\ lines = <<>>
    /\ i = 0
    /\ det = DetectLocals
    /\ detected = <<>>

\* lines 233-242
DetectBegin ==
    /\ dpc = "idle"
    /\ lines' = Split(dtext)
    /\ i' = 0
    /\ det' = DetectLocals
    /\ dpc' = "loop"
    /\ UNCHANGED <<dtext, detected>>

\* lines 244-298
DetectLine ==
    /\ dpc = "loop"
    /\ i < Len(lines)
    /\ det' = ParseStep(det, i, lines[i + 1], FileName)
    /\ i' = NextIndex(i)
    /\ UNCHANGED <<dpc, dtext, lines, detected>>

\* line 300
DetectReturn ==
    /\ dpc = "loop"
    /\ i >= Len(lines)
    /\ detected' = DetectResult(det)
    /\ dpc' = "done"
    /\ UNCHANGED <<dtext, lines, i, det>>

-----------------------------------------------------------------------------
(* Documents and edits *)

RECURSIVE OffsetOfLine(_, _)
\* document.offsetAt(new Position(n, 0))
OffsetOfLine(ls, n) ==
    IF n = 0 THEN 0 ELSE OffsetOfLine(ls, n - 1) + Len(ls[n]) + 1

\* WorkspaceEdit.replace of the characters in [from, to) by newText
ReplaceRange(text, from, to, newText) ==
    SubSeq(text, 1, from) \o newText \o SubSeq(text, to + 1, Len(text))

\* the range ends at column 0 of the end line
RangeEndColumnZero(ls, conflict) == 0

\* line 52: editor.document.lineAt(conflict.endLine).text.length
RangeEndColumn(ls, conflict) == Len(ls[conflict.endLine + 1])

\* lines 49-55: the text after the edit has been applied
EditedText(text, conflict, newText) ==
    LET ls == Split(text)
    IN  ReplaceRange(text,
                     OffsetOfLine(ls, conflict.startLine),
                     OffsetOfLine(ls, conflict.endLine) + RangeEndColumn(ls, conflict),
                     newText)

SaveOutcomes == {"saved", "notSaved", "rejected"}

\* ConflictResolver.applyResolution, lines 43-67.  editOk is the value that
\* workspace.applyEdit resolves to; save is what document.save() does.
applyResolution(text, conflict, newText, editOk, save) ==
    IF conflict.endLine >= Len(Split(text))
    THEN \* lineAt throws, caught at line 63
         [ret |-> FALSE, text |-> text, edited |-> FALSE, saved |-> FALSE]
    ELSE IF ~editOk
    THEN [ret |-> FALSE, text |-> text, edited |-> FALSE, saved |-> FALSE]
    ELSE IF save = "rejected"
    THEN \* save() rejects, caught at line 63
         [ret |-> FALSE, text |-> EditedText(text, conflict, newText),
          edited |-> TRUE, saved |-> FALSE]
    ELSE \* line 62: the value of applyEdit is returned whatever save() resolved to
         [ret |-> TRUE, text |-> EditedText(text, conflict, newText),
          edited |-> TRUE, saved |-> (save = "saved")]

-----------------------------------------------------------------------------
(* The backend and its replies *)

undefined == "<undefined>"

ShortResolution == <<"r">>
LongResolution == Join(<<<<"r">>, <<"s">>, <<"t">>, <<"u">>, <<"v">>, <<"w">>>>)

Responses ==
    {[resolution |-> ShortResolution, explanation |-> "merged", confidence |-> 9],
     [resolution |-> LongResolution, explanation |-> "merged", confidence |-> 9]}

BackendErrors == {"backend unreachable"}

BackendOutcomes ==
    {[kind |-> "ok", response |-> r] : r \in Responses}
        \cup {[kind |-> "error", message |-> m] : m \in BackendErrors}

NoOutcome == [kind |-> "none"]

\* the failure is replaced by a generic one
resolveConflictWrapped(outcome) ==
    IF outcome.kind = "error"
    THEN [kind |-> "error", message |-> "resolution failed"]
    ELSE outcome

\* ConflictResolver.resolveConflict, line 40: the provider's result or
\* failure is the result or failure of the call
resolveConflict(outcome) == outcome

-----------------------------------------------------------------------------
(* Workspaces *)

RECURSIVE WorkspacesOf(_, _)
\* the workspaces of nf files with at most budget conflict blocks in all
WorkspacesOf(nf, budget) ==
    IF nf = 0 THEN {<<>>}
    ELSE UNION {{<<Join(d)>> \o w : d \in DocsWithBlocks(k),
                                    w \in WorkspacesOf(nf - 1, budget - k)}
                : k \in 0..budget}

Workspaces == UNION {WorkspacesOf(nf, MaxConflicts) : nf \in 1..MaxFiles}

-----------------------------------------------------------------------------
(* ConflictDetector.detectAllConflicts *)

RECURSIVE DetectAllFrom(_, _)
DetectAllFrom(texts, f) ==
    IF f > Len(texts) THEN <<>>
    ELSE LET cs == detectConflictsInFile(texts[f], FilePath(f))
         IN  (IF Len(cs) > 0
              THEN <<[filePath |-> FilePath(f), conflicts |-> cs]>>
              ELSE <<>>) \o DetectAllFrom(texts, f + 1)

\* lines 303-323: the entries of the map in insertion order
detectAllConflicts(texts) == DetectAllFrom(texts, 1)

-----------------------------------------------------------------------------
(* ConflictResolver.resolveAllConflicts *)

\* the comparator orders by ascending startLine
CompareAscending(a, b) == a.startLine - b.startLine

\* line 95: (a, b) => b.startLine - a.startLine
CompareConflicts(a, b) == b.startLine - a.startLine

RECURSIVE InsertSorted(_, _)
InsertSorted(c, sorted) ==
    IF sorted = <<>> THEN <<c>>
    ELSE IF CompareConflicts(c, Head(sorted)) < 0 THEN <<c>> \o sorted
    ELSE <<Head(sorted)>> \o InsertSorted(c, Tail(sorted))

RECURSIVE SortConflicts(_)
\* line 95: [...conflicts].sort(comparator), a stable sort
SortConflicts(cs) ==
    IF cs = <<>> THEN <<>>
    ELSE InsertSorted(cs[Len(cs)], SortConflicts(SubSeq(cs, 1, Len(cs) - 1)))

\* the inner loop never observes the token
ConflictLoopIgnoresToken(tok) == FALSE

\* lines 98-100
ConflictLoopBreaks(tok) == tok

\* lines 87-89
FileLoopBreaks(tok) == tok

\* the failure is recorded without its message
ErrorResultNoMessage(conflict, message) ==
    [conflict |-> conflict,
     resolution |-> [resolution |-> <<>>, explanation |-> "", confidence |-> 0],
     applied |-> FALSE,
     error |-> undefined]

\* lines 134-143
ErrorResult(conflict, message) ==
    [conflict |-> conflict,
     resolution |-> [resolution |-> <<>>, explanation |-> "", confidence |-> 0],
     applied |-> FALSE,
     error |-> message]

\* lines 112-117
ApplyResult(conflict, response, applied) ==
    [conflict |-> conflict,
     resolution |-> response,
     applied |-> applied,
     error |-> IF applied THEN undefined ELSE "Failed to apply edit"]

\* only the applied results are returned
ReturnOnlyApplied(rs) == SelectSeq(rs, LAMBDA r : r.applied)

\* line 174
ReturnValue(rs) == rs

CurrentEntry == allConflicts[fileIdx]
CurrentFile == FileOf(CurrentEntry.filePath)
CurrentConflict == sortedConflicts[conflictIdx]

BatchInit ==
    /\ workspace \in Workspaces
    /\ buffer = workspace
    /\ dirty = [f \in DOMAIN workspace |-> FALSE]
    /\ pc = "idle"
    /\ allConflicts = <<>>
    /\ fileIdx = 1
    /\ sortedConflicts = <<>>
    /\ conflictIdx = 1
    /\ resolvedCount = 0
    /\ results = <<>>
    /\ token = FALSE
    /\ resolution = NoOutcome
    /\ backend = NoOutcome
    /\ callCount = 0
    /\ faults = 0
    /\ summary = NoOutcome
    /\ returned = <<>>
    /\ onePc = "idle"
    /\ oneOutcome = NoOutcome

\* lines 70-84
BatchStart ==
    /\ pc = "idle"
    /\ onePc = "idle"
    /\ results' = <<>>
    /\ allConflicts' = detectAllConflicts(buffer)
    /\ resolvedCount' = 0
    /\ fileIdx' = 1
    /\ pc' = "fileLoop"
    /\ UNCHANGED <<faults, workspace, buffer, dirty, sortedConflicts, conflictIdx, token,
                   resolution, backend, callCount, summary, returned, onePc,
                   oneOutcome>>

\* the user presses the Cancel button of the progress notification
CancelRequested ==
    /\ pc \notin {"idle", "summary", "returned"}
    /\ ~token
    /\ token' = TRUE
    /\ UNCHANGED <<faults, workspace, buffer, dirty, pc, allConflicts, fileIdx,
                   sortedConflicts, conflictIdx, resolvedCount, results,
                   resolution, backend, callCount, summary, returned, onePc,
                   oneOutcome>>

\* lines 86-95
FileLoop ==
    /\ pc = "fileLoop"
    /\ IF fileIdx > Len(allConflicts) \/ FileLoopBreaks(token)
       THEN /\ pc' = "summary"
            /\ UNCHANGED <<sortedConflicts, conflictIdx>>
       ELSE /\ sortedConflicts' = SortConflicts(CurrentEntry.conflicts)
            /\ conflictIdx' = 1
            /\ pc' = "conflictLoop"
    /\ UNCHANGED <<faults, workspace, buffer, dirty, allConflicts, fileIdx, resolvedCount,
                   results, token, resolution, backend, callCount, summary,
                   returned, onePc, oneOutcome>>

\* lines 97-109, up to the provider call made by resolveConflict
ConflictLoop ==
    /\ pc = "conflictLoop"
    /\ IF conflictIdx > Len(sortedConflicts) \/ ConflictLoopBreaks(token)
       THEN /\ fileIdx' = fileIdx + 1
            /\ pc' = "fileLoop"
            /\ UNCHANGED <<resolvedCount, callCount>>
       ELSE /\ resolvedCount' = resolvedCount + 1
            /\ callCount' = callCount + 1
            /\ pc' = "resolving"
            /\ UNCHANGED fileIdx
    /\ UNCHANGED <<faults, workspace, buffer, dirty, allConflicts, sortedConflicts,
                   conflictIdx, results, token, resolution, backend, summary,
                   returned, onePc, oneOutcome>>

\* line 109: the call returns a response; line 110 calls applyResolution
ResolveReturns ==
    /\ pc = "resolving"
    /\ \E out \in BackendOutcomes :
          /\ resolveConflict(out).kind = "ok"
          /\ backend' = out
          /\ resolution' = resolveConflict(out).response
    /\ pc' = "applying"
    /\ UNCHANGED <<faults, workspace, buffer, dirty, allConflicts, fileIdx,
                   sortedConflicts, conflictIdx, resolvedCount, results, token,
                   callCount, summary, returned, onePc, oneOutcome>>

\* line 109 throws: lines 133-143
ResolveThrows ==
    /\ pc = "resolving"
    /\ \E out \in BackendOutcomes :
          /\ resolveConflict(out).kind = "error"
          /\ faults < MaxFaults
          /\ faults' = faults + 1
          /\ backend' = out
          /\ results' = Append(results,
                               ErrorResult(CurrentConflict, resolveConflict(out).message))
    /\ pc' = "errorPrompt"
    /\ UNCHANGED <<workspace, buffer, dirty, allConflicts, fileIdx,
                   sortedConflicts, conflictIdx, resolvedCount, token, resolution,
                   callCount, summary, returned, onePc, oneOutcome>>

\* lines 145-152
ErrorPrompt ==
    /\ pc = "errorPrompt"
    /\ \E action \in {"Continue", "Cancel", undefined} :
          IF action = "Cancel"
          THEN pc' = "summary" /\ UNCHANGED conflictIdx
          ELSE pc' = "conflictLoop" /\ conflictIdx' = conflictIdx + 1
    /\ UNCHANGED <<faults, workspace, buffer, dirty, allConflicts, fileIdx,
                   sortedConflicts, resolvedCount, results, token, resolution,
                   backend, callCount, summary, returned, onePc, oneOutcome>>

\* the failures among the answers of applyEdit and save
ApplyFaults(editOk, save) == IF editOk /\ save = "saved" THEN 0 ELSE 1

\* lines 110-119
Apply ==
    /\ pc = "applying"
    /\ \E editOk \in BOOLEAN, save \in SaveOutcomes :
          LET out == applyResolution(buffer[CurrentFile], CurrentConflict,
                                     resolution.resolution, editOk, save)
          IN  /\ buffer' = [buffer EXCEPT ![CurrentFile] = out.text]
              /\ dirty' = [dirty EXCEPT ![CurrentFile] =
                               IF out.edited THEN ~out.saved ELSE @]
              /\ faults + ApplyFaults(editOk, save) <= MaxFaults
              /\ faults' = faults + ApplyFaults(editOk, save)
              /\ results' = Append(results,
                                   ApplyResult(CurrentConflict, resolution, out.ret))
              /\ IF out.ret
                 THEN pc' = "conflictLoop" /\ conflictIdx' = conflictIdx + 1
                 ELSE pc' = "retryPrompt" /\ UNCHANGED conflictIdx
    /\ UNCHANGED <<workspace, allConflicts, fileIdx, sortedConflicts,
                   resolvedCount, token, resolution, backend, callCount, summary,
                   returned, onePc, oneOutcome>>

\* lines 120-128
RetryPrompt ==
    /\ pc = "retryPrompt"
    /\ \E retry \in {"Retry", "Skip", "Cancel", undefined} :
          IF retry = "Cancel"
          THEN pc' = "summary" /\ UNCHANGED conflictIdx
          ELSE IF retry = "Retry"
          THEN pc' = "retryApplying" /\ UNCHANGED conflictIdx
          ELSE pc' = "conflictLoop" /\ conflictIdx' = conflictIdx + 1
    /\ UNCHANGED <<faults, workspace, buffer, dirty, allConflicts, fileIdx,
                   sortedConflicts, resolvedCount, results, token, resolution,
                   backend, callCount, summary, returned, onePc, oneOutcome>>

\* a retry that fails is followed by another prompt
AfterRetryAsksAgain(retryApplied) ==
    IF retryApplied THEN "conflictLoop" ELSE "retryPrompt"

\* lines 127-132: whatever the retry returned, the if statement and the try
\* block end and the loop takes the next conflict
AfterRetry(retryApplied) == "conflictLoop"

\* the outcome of the retry is recorded as a further result
RetryOverwriteAppends(rs, retryApplied) ==
    Append(rs, [rs[Len(rs)] EXCEPT !.applied = retryApplied])

\* line 130: results[results.length - 1].applied = retryApplied
RetryOverwrite(rs, retryApplied) ==
    [rs EXCEPT ![Len(rs)].applied = retryApplied]

\* lines 129-130
RetryApply ==
    /\ pc = "retryApplying"
    /\ \E editOk \in BOOLEAN, save \in SaveOutcomes :
          LET out == applyResolution(buffer[CurrentFile], CurrentConflict,
                                     resolution.resolution, editOk, save)
          IN  /\ buffer' = [buffer EXCEPT ![CurrentFile] = out.text]
              /\ dirty' = [dirty EXCEPT ![CurrentFile] =
                               IF out.edited THEN ~out.saved ELSE @]
              /\ faults + ApplyFaults(editOk, save) <= MaxFaults
              /\ faults' = faults + ApplyFaults(editOk, save)
              /\ results' = RetryOverwrite(results, out.ret)
              /\ pc' = AfterRetry(out.ret)
              /\ conflictIdx' = IF AfterRetry(out.ret) = "conflictLoop"
                                THEN conflictIdx + 1 ELSE conflictIdx
    /\ UNCHANGED <<workspace, allConflicts, fileIdx, sortedConflicts,
                   resolvedCount, token, resolution, backend, callCount, summary,
                   returned, onePc, oneOutcome>>

\* lines 160-174
Summary ==
    /\ pc = "summary"
    /\ summary' = [successful |-> Len(SelectSeq(results, LAMBDA r : r.applied)),
                   failed |-> Len(SelectSeq(results, LAMBDA r : ~r.applied))]
    /\ returned' = ReturnValue(results)
    /\ pc' = "returned"
    /\ UNCHANGED <<faults, workspace, buffer, dirty, allConflicts, fileIdx,
                   sortedConflicts, conflictIdx, resolvedCount, results, token,
                   resolution, backend, callCount, onePc, oneOutcome>>

-----------------------------------------------------------------------------
(* ConflictResolver.resolveConflict called on its own.  The call changes   *)
(* nothing that resolveAllConflicts reads, so a behaviour runs one of the  *)
(* two commands.                                                           *)

\* lines 23-40, up to the provider call
ResolveOneCall ==
    /\ pc = "idle"
    /\ onePc = "idle"
    /\ \E f \in DOMAIN buffer :
          detectConflictsInFile(buffer[f], FilePath(f)) # <<>>
    /\ callCount' = callCount + 1
    /\ onePc' = "awaiting"
    /\ UNCHANGED <<faults, workspace, buffer, dirty, pc, allConflicts, fileIdx,
                   sortedConflicts, conflictIdx, resolvedCount, results, token,
                   resolution, backend, summary, returned, oneOutcome>>

\* line 40
ResolveOneSettles ==
    /\ onePc = "awaiting"
    /\ \E out \in BackendOutcomes :
          /\ faults' = IF out.kind = "error" THEN faults + 1 ELSE faults
          /\ backend' = out
          /\ oneOutcome' = resolveConflict(out)
          /\ onePc' = IF resolveConflict(out).kind = "ok" THEN "returned" ELSE "thrown"
    /\ UNCHANGED <<workspace, buffer, dirty, pc, allConflicts, fileIdx,
                   sortedConflicts, conflictIdx, resolvedCount, results, token,
                   resolution, callCount, summary, returned>>

-----------------------------------------------------------------------------
(* The queries of ConflictDetector: hasConflicts, getConflictAtPosition and *)
(* extractContext                                                          *)

\* lines 325-330: each pattern is tested on the whole text
hasConflicts(text) ==
    /\ conflictStartPattern(text)
    /\ conflictSeparatorPattern(text)
    /\ conflictEndPattern(text)

\* the end line is not part of the span
InSpanExclusive(conflict, line) ==
    line >= conflict.startLine /\ line < conflict.endLine

\* lines 334-335
InSpan(conflict, line) ==
    line >= conflict.startLine /\ line <= conflict.endLine

\* the value undefined where a MergeConflict is expected
undefinedConflict == [isUndefined |-> TRUE]

RECURSIVE FindFrom(_, _, _)
\* Array.prototype.find from index k on
FindFrom(conflicts, line, k) ==
    IF k > Len(conflicts) THEN undefinedConflict
    ELSE IF InSpan(conflicts[k], line) THEN conflicts[k]
    ELSE FindFrom(conflicts, line, k + 1)

\* lines 332-337
getConflictAtPosition(conflicts, line) == FindFrom(conflicts, line, 1)

Max(a, b) == IF a >= b THEN a ELSE b
Min(a, b) == IF a <= b THEN a ELSE b

\* Array.prototype.slice(from, to) for from, to >= 0
Slice(ls, from, to) == SubSeq(ls, from + 1, Min(to, Len(ls)))

BeforeHeader ==
    <<"C", "o", "n", "t", "e", "x", "t", " ", "b", "e", "f", "o", "r", "e",
      " ", "c", "o", "n", "f", "l", "i", "c", "t", ":">>

AfterHeader ==
    <<"C", "o", "n", "t", "e", "x", "t", " ", "a", "f", "t", "e", "r", " ",
      "c", "o", "n", "f", "l", "i", "c", "t", ":">>

\* line 341
startContext(ls, conflict, contextLines) == Max(0, conflict.startLine - contextLines)

\* line 342
endContext(ls, conflict, contextLines) ==
    Min(Len(ls) - 1, conflict.endLine + contextLines)

\* line 344
beforeContext(ls, conflict, contextLines) ==
    Join(Slice(ls, startContext(ls, conflict, contextLines), conflict.startLine))

\* the slice starts at the end marker
afterContextFromEndLine(ls, conflict, contextLines) ==
    Join(Slice(ls, conflict.endLine, endContext(ls, conflict, contextLines) + 1))

\* line 345
afterContext(ls, conflict, contextLines) ==
    Join(Slice(ls, conflict.endLine + 1, endContext(ls, conflict, contextLines) + 1))

\* lines 339-348
extractContext(text, conflict, contextLines) ==
    LET ls == Split(text)
    IN  BeforeHeader \o <<NL>> \o beforeContext(ls, conflict, contextLines)
            \o <<NL, NL>> \o AfterHeader \o <<NL>>
            \o afterContext(ls, conflict, contextLines)

\* plain lines around one block
ContextDocs ==
    {pre \o Block \o post : pre \in SeqsUpTo({TextA, TextB}, MaxContext),
                            post \in SeqsUpTo({TextA, TextB}, MaxContext)}

QueryDocs ==
    {d \in SeqsUpTo(LineSet, MaxQueryLines) : Len(d) >= 1}
        \cup ContextDocs \cup BlockDocs

Span(a, b) == [startLine |-> a, endLine |-> b]

\* lists whose spans overlap or are not in top-to-bottom order
OtherLists ==
    {<<Span(0, 2), Span(1, 3)>>, <<Span(1, 2), Span(0, 3)>>,
     <<Span(2, 4), Span(0, 1)>>}

QueryInit ==
    /\ qtext \in {Join(d) : d \in QueryDocs}
    /\ qconflicts \in {detectConflictsInFile(qtext, FileName)} \cup OtherLists
    /\ qop = "none"
    /\ qarg = NoOutcome
    /\ qresult = NoOutcome

\* hasConflicts(document)
HasConflicts ==
    /\ qop' = "hasConflicts"
    /\ qarg' = NoOutcome
    /\ qresult' = hasConflicts(qtext)
    /\ UNCHANGED <<qtext, qconflicts>>

\* getConflictAtPosition(conflicts, position)
GetConflictAtPosition ==
    /\ \E line \in 0..Len(Split(qtext)) :
          /\ qarg' = [line |-> line]
          /\ qresult' = getConflictAtPosition(qconflicts, line)
    /\ qop' = "getConflictAtPosition"
    /\ UNCHANGED <<qtext, qconflicts>>

\* extractContext(document, conflict, contextLines)
ExtractContext ==
    /\ \E k \in 1..Len(qconflicts), n \in 0..(MaxContext + 1) :
          /\ qarg' = [conflict |-> qconflicts[k], contextLines |-> n]
          /\ qresult' = extractContext(qtext, qconflicts[k], n)
    /\ qop' = "extractContext"
    /\ UNCHANGED <<qtext, qconflicts>>

-----------------------------------------------------------------------------
(* JavaScript values and JSON.parse, as the providers use them.  A number  *)
(* is held in hundredths: 0.85 is 85.                                      *)

JSUndefined == [t |-> "undefined"]
JSNull == [t |-> "null"]
JSBool(b) == [t |-> "boolean", v |-> b]
JSNumber(h) == [t |-> "number", v |-> h]
JSString(s) == [t |-> "string", v |-> s]
JSArray(elements) == [t |-> "array", v |-> elements]
JSObject(members) == [t |-> "object", v |-> members]

\* a string written in the source
JSLiteral(s) == [t |-> "string", lit |-> s]

\* ToBoolean, as the operator || applies it
Truthy(x) ==
    CASE x.t = "undefined" -> FALSE
      [] x.t = "null" -> FALSE
      [] x.t = "boolean" -> x.v
      [] x.t = "number" -> x.v # 0
      [] x.t = "string" -> IF "lit" \in DOMAIN x THEN x.lit # "" ELSE x.v # <<>>
      [] OTHER -> TRUE

\* a || b
Or(a, b) == IF Truthy(a) THEN a ELSE b

RECURSIVE LookUp(_, _, _)
\* the value of the last member named key among the first k
LookUp(members, key, k) ==
    IF k = 0 THEN JSUndefined
    ELSE IF members[k].key = key THEN members[k].value
    ELSE LookUp(members, key, k - 1)

\* x.key: a TypeError on null and undefined, undefined when x has no such
\* property
CanGet(x) == x.t \notin {"null", "undefined"}

Get(x, key) ==
    IF x.t = "object" THEN LookUp(x.v, key, Len(x.v)) ELSE JSUndefined

JsonWhitespace == {" ", "\t", "\n", "\r"}
Digits == {"0", "1", "2", "3", "4", "5", "6", "7", "8", "9"}
DigitValue ==
    [c \in Digits |->
        CASE c = "0" -> 0 [] c = "1" -> 1 [] c = "2" -> 2 [] c = "3" -> 3
          [] c = "4" -> 4 [] c = "5" -> 5 [] c = "6" -> 6 [] c = "7" -> 7
          [] c = "8" -> 8 [] c = "9" -> 9]

\* the character at p, the empty string past the end
At(t, p) == IF p >= 1 /\ p <= Len(t) THEN t[p] ELSE ""

StartsWith(t, p, w) ==
    /\ p + Len(w) - 1 <= Len(t)
    /\ SubSeq(t, p, p + Len(w) - 1) = w

RECURSIVE SkipWhitespace(_, _)
SkipWhitespace(t, p) ==
    IF At(t, p) \in JsonWhitespace THEN SkipWhitespace(t, p + 1) ELSE p

RECURSIVE DigitsEnd(_, _)
\* the position after the digits that start at p
DigitsEnd(t, p) == IF At(t, p) \in Digits THEN DigitsEnd(t, p + 1) ELSE p

RECURSIVE Decimal(_, _, _)
\* the value of the digits t[p..q-1]
Decimal(t, p, q) ==
    IF p >= q THEN 0 ELSE 10 * Decimal(t, p, q - 1) + DigitValue[t[q - 1]]

ParseFailed == [ok |-> FALSE]
Parsed(value, next) == [ok |-> TRUE, value |-> value, next |-> next]

\* number: -? (0 | [1-9][0-9]*) (. [0-9]+)?, read to two decimals
ParseNumber(t, p) ==
    LET q == IF At(t, p) = "-" THEN p + 1 ELSE p
        r == IF At(t, q) = "0" THEN q + 1 ELSE DigitsEnd(t, q)
        f == IF At(t, r) = "." THEN DigitsEnd(t, r + 1) ELSE r
        whole == Decimal(t, q, r)
        tenths == IF f > r + 1 THEN DigitValue[t[r + 1]] ELSE 0
        hundredths == IF f > r + 2 THEN DigitValue[t[r + 2]] ELSE 0
        magnitude == 100 * whole + 10 * tenths + hundredths
    IN  IF r = q \/ (At(t, r) = "." /\ f = r + 1) THEN ParseFailed
        ELSE Parsed(JSNumber(IF q > p THEN 0 - magnitude ELSE magnitude), f)

RECURSIVE StringEnd(_, _)
\* the position of the closing quote of the string whose text starts at p,
\* 0 when the string is not closed or holds a character that needs an escape
StringEnd(t, p) ==
    IF p > Len(t) \/ t[p] \in {"\n", "\r", "\t", "\\"} THEN 0
    ELSE IF t[p] = "\"" THEN p
    ELSE StringEnd(t, p + 1)

\* string: the opening quote is at p
ParseString(t, p) ==
    LET k == StringEnd(t, p + 1)
    IN  IF k = 0 THEN ParseFailed
        ELSE Parsed(JSString(SubSeq(t, p + 1, k - 1)), k + 1)

LiteralNull == <<"n", "u", "l", "l">>
LiteralTrue == <<"t", "r", "u", "e">>
LiteralFalse == <<"f", "a", "l", "s", "e">>

RECURSIVE ParseValue(_, _)
RECURSIVE ParseMembers(_, _, _)
RECURSIVE ParseElements(_, _, _)

\* value: leading whitespace, then a literal, number, string, object or array
ParseValue(t, p0) ==
    LET p == SkipWhitespace(t, p0)
        c == At(t, p)
    IN  IF StartsWith(t, p, LiteralNull) THEN Parsed(JSNull, p + 4)
        ELSE IF StartsWith(t, p, LiteralTrue) THEN Parsed(JSBool(TRUE), p + 4)
        ELSE IF StartsWith(t, p, LiteralFalse) THEN Parsed(JSBool(FALSE), p + 5)
        ELSE IF c = "-" \/ c \in Digits THEN ParseNumber(t, p)
        ELSE IF c = "\"" THEN ParseString(t, p)
        ELSE IF c = "{"
        THEN IF At(t, SkipWhitespace(t, p + 1)) = "}"
             THEN Parsed(JSObject(<<>>), SkipWhitespace(t, p + 1) + 1)
             ELSE ParseMembers(t, p + 1, <<>>)
        ELSE IF c = "["
        THEN IF At(t, SkipWhitespace(t, p + 1)) = "]"
             THEN Parsed(JSArray(<<>>), SkipWhitespace(t, p + 1) + 1)
             ELSE ParseElements(t, p + 1, <<>>)
        ELSE ParseFailed

\* members: "key" : value, then a comma and more members or the closing brace
ParseMembers(t, p0, acc) ==
    LET p == SkipWhitespace(t, p0)
        key == IF At(t, p) = "\"" THEN ParseString(t, p) ELSE ParseFailed
        colon == IF key.ok THEN SkipWhitespace(t, key.next) ELSE 0
        val == IF key.ok /\ At(t, colon) = ":"
               THEN ParseValue(t, colon + 1) ELSE ParseFailed
        after == IF val.ok THEN SkipWhitespace(t, val.next) ELSE 0
        members == IF val.ok
                   THEN Append(acc, [key |-> key.value.v, value |-> val.value])
                   ELSE acc
    IN  IF ~val.ok THEN ParseFailed
        ELSE IF At(t, after) = "," THEN ParseMembers(t, after + 1, members)
        ELSE IF At(t, after) = "}" THEN Parsed(JSObject(members), after + 1)
        ELSE ParseFailed

\* elements: value, then a comma and more elements or the closing bracket
ParseElements(t, p0, acc) ==
    LET val == ParseValue(t, p0)
        after == IF val.ok THEN SkipWhitespace(t, val.next) ELSE 0
        elements == IF val.ok THEN Append(acc, val.value) ELSE acc
    IN  IF ~val.ok THEN ParseFailed
        ELSE IF At(t, after) = "," THEN ParseElements(t, after + 1, elements)
        ELSE IF At(t, after) = "]" THEN Parsed(JSArray(elements), after + 1)
        ELSE ParseFailed

\* JSON.parse(text): the value, or a SyntaxError when the text is not one
\* JSON value with nothing but whitespace around it
JSONParse(t) ==
    LET r == ParseValue(t, 1)
    IN  IF r.ok /\ SkipWhitespace(t, r.next) = Len(t) + 1
        THEN [ok |-> TRUE, value |-> r.value]
        ELSE ParseFailed

-----------------------------------------------------------------------------
(* The replies of a backend *)

ResolutionKey == <<"r", "e", "s", "o", "l", "u", "t", "i", "o", "n">>
ExplanationKey == <<"e", "x", "p", "l", "a", "n", "a", "t", "i", "o", "n">>
ConfidenceKey == <<"c", "o", "n", "f", "i", "d", "e", "n", "c", "e">>

Quoted(s) == <<"\"">> \o s \o <<"\"">>

Member(key, valueText) == Quoted(key) \o <<":">> \o valueText

RECURSIVE CommaSeparated(_)
CommaSeparated(parts) ==
    IF Len(parts) = 0 THEN <<>>
    ELSE IF Len(parts) = 1 THEN parts[1]
    ELSE parts[1] \o <<",">> \o CommaSeparated(Tail(parts))

ObjectText(members) == <<"{">> \o CommaSeparated(members) \o <<"}">>

ResolutionMember == Member(ResolutionKey, Quoted(ShortResolution))
ExplanationMember == Member(ExplanationKey, Quoted(<<"e">>))
ConfidenceMember(numberText) == Member(ConfidenceKey, numberText)

\* the confidence values a reply can carry
ConfidenceTexts ==
    {<<"0", ".", "9">>, <<"0">>, <<"1">>, <<"-", "1">>, <<"2">>,
     <<"0", ".", "8", "5">>, Quoted(<<"x">>)}

\* replies that are an object with the three fields
CompleteReplies ==
    {ObjectText(<<ResolutionMember, ExplanationMember, ConfidenceMember(c)>>) :
        c \in ConfidenceTexts}

\* replies that are an object in which a field is missing or empty
IncompleteReplies ==
    {ObjectText(<<ExplanationMember, ConfidenceMember(<<"0", ".", "9">>)>>),
     ObjectText(<<ResolutionMember, ConfidenceMember(<<"0", ".", "9">>)>>),
     ObjectText(<<ResolutionMember, ExplanationMember>>),
     ObjectText(<<>>),
     ObjectText(<<Member(ResolutionKey, Quoted(<<>>)), ExplanationMember>>),
     ObjectText(<<Member(ResolutionKey, LiteralNull), ExplanationMember>>),
     <<"{", " ">> \o ResolutionMember \o <<"\n", "}", "\n">>}

\* replies that are a JSON value other than an object
NullReply == LiteralNull

NonObjectReplies ==
    {NullReply, LiteralTrue, LiteralFalse, <<"7">>, Quoted(ShortResolution),
     <<"[", "]">>, <<"[", "1", ",", "2", "]">>}

\* replies that are not JSON
InvalidJsonReplies ==
    {ShortResolution,
     <<>>,
     <<"{">> \o ResolutionMember,
     <<"{">> \o ResolutionMember \o <<",", "}">>,
     <<"{">> \o ResolutionKey \o <<":">> \o Quoted(ShortResolution) \o <<"}">>,
     ObjectText(<<ResolutionMember>>) \o <<" ", "x">>,
     <<"\"">> \o ShortResolution,
     <<"0", "1">>}

ReplyTexts ==
    CompleteReplies \cup IncompleteReplies \cup NonObjectReplies
        \cup InvalidJsonReplies

\* what the transport call of a provider does: it resolves to a reply text
\* or it rejects
TransportOutcomes ==
    {[kind |-> "reply", content |-> t] : t \in ReplyTexts}
        \cup {[kind |-> "error", message |-> m] : m \in BackendErrors}

-----------------------------------------------------------------------------
(* OllamaProvider, OpenAIProvider and ClaudeProvider: resolveConflict *)

ProviderKinds == {"ollama", "openai", "claude"}

ProviderName(kind) ==
    CASE kind = "ollama" -> "Ollama"
      [] kind = "openai" -> "OpenAI"
      [] kind = "claude" -> "Claude"

\* config.apiKey: not set, or a key
ApiKeys == {"", "sk-key"}

\* OpenAIProvider and ClaudeProvider lines 13-15
RequiresApiKey(kind) == kind \in {"openai", "claude"}

\* every variant answers a reply that is not JSON with the same confidence
FallbackConfidenceOfLocal(kind) == 50

\* the confidence of the catch branch of JSON.parse: OllamaProvider line 39,
\* OpenAIProvider line 56, ClaudeProvider line 53
FallbackConfidence(kind) == IF kind = "ollama" THEN 50 ELSE 60

\* OllamaProvider line 46, OpenAIProvider line 63, ClaudeProvider line 60
DefaultConfidence(kind) == IF kind = "ollama" THEN 70 ELSE 85

Thrown(message) == [kind |-> "error", message |-> message]
Returned(response) == [kind |-> "ok", response |-> response]

\* the catch branch of JSON.parse
ParseFallback(kind, content) ==
    [resolution |-> JSString(content),
     explanation |->
         JSLiteral("AI provided a resolution but response format was unexpected"),
     confidence |-> JSNumber(FallbackConfidence(kind))]

\* the response built from the parsed reply
ParsedResponse(kind, content, parsedResponse) ==
    [resolution |-> Or(Get(parsedResponse, ResolutionKey), JSString(content)),
     explanation |-> Or(Get(parsedResponse, ExplanationKey),
                        JSLiteral("Resolution provided by " \o ProviderName(kind))),
     confidence |-> Or(Get(parsedResponse, ConfidenceKey),
                       JSNumber(DefaultConfidence(kind)))]

\* the outer catch: the failure is thrown again under the provider's name
Rethrown(kind, cause) ==
    Thrown([text |-> "Failed to get resolution from " \o ProviderName(kind),
            cause |-> cause])

\* resolveConflict from the moment the transport call settles
AfterTransport(kind, transport) ==
    IF transport.kind = "error" THEN Rethrown(kind, transport.message)
    ELSE LET content == transport.content
             parsed == JSONParse(content)
         IN  IF ~parsed.ok THEN Returned(ParseFallback(kind, content))
             ELSE IF ~CanGet(parsed.value)
             THEN Rethrown(kind, "Cannot read properties of null (reading 'resolution')")
             ELSE Returned(ParsedResponse(kind, content, parsed.value))

\* the error thrown before any request when a hosted variant has no key
MissingKey(kind) ==
    Thrown([text |-> ProviderName(kind) \o " API key is required", cause |-> ""])

\* model names: the default of OllamaProvider lines 58, a tag of it, another
Codellama == <<"c", "o", "d", "e", "l", "l", "a", "m", "a">>
CodellamaTagged == Codellama \o <<":", "7", "b">>
Llama2 == <<"l", "l", "a", "m", "a", "2">>

\* config.model: not set, or a name
ModelNames == {<<>>, Llama2}

\* OllamaProvider line 58
modelName(model) == IF model = <<>> THEN Codellama ELSE model

\* OllamaProvider line 60
modelExists(models, model) ==
    \E k \in 1..Len(models) :
        models[k] = modelName(model) \/ StartsWith(models[k], 1, modelName(model))

\* what ollama.list() resolves to: the names of models.models
ListedModels ==
    {<<>>, <<CodellamaTagged>>, <<Llama2>>, <<Llama2, Codellama>>}

\* what ollama.list() does: it resolves to a list of models, it resolves to a
\* value without the member models, or it rejects
ListOutcomes ==
    {[kind |-> "reply", models |-> ms] : ms \in ListedModels}
        \cup {[kind |-> "malformed"]}
        \cup {[kind |-> "error", message |-> m] : m \in BackendErrors}

\* what the probe request of a hosted variant does: it resolves with a
\* status, or it rejects
ProbeOutcomes ==
    {[kind |-> "reply", status |-> st] : st \in {200, 204}}
        \cup {[kind |-> "error", message |-> m] : m \in BackendErrors}

\* every variant sends the probe request whether or not a key is set
ValidationShortCircuitsNever(kind, apiKey) == FALSE

\* OpenAIProvider lines 72-75, ClaudeProvider lines 69-72
ValidationShortCircuits(kind, apiKey) == RequiresApiKey(kind) /\ apiKey = ""

\* validateConfiguration from the moment the transport call settles:
\* OllamaProvider lines 55-71, OpenAIProvider lines 77-92, ClaudeProvider
\* lines 74-101
AfterProbe(kind, model, transport) ==
    IF transport.kind \in {"error", "malformed"} THEN Returned(FALSE)
    ELSE IF kind = "ollama" THEN Returned(modelExists(transport.models, model))
    ELSE Returned(transport.status = 200)

\* the lists of OpenAIProvider lines 98-104 and ClaudeProvider lines 106-112
FixedModelList(kind) ==
    IF kind = "openai"
    THEN <<"gpt-4-turbo-preview", "gpt-4", "gpt-4-32k", "gpt-3.5-turbo",
           "gpt-3.5-turbo-16k">>
    ELSE <<"claude-3-opus-20240229", "claude-3-sonnet-20240229",
           "claude-3-haiku-20240307", "claude-2.1", "claude-2.0">>

\* OllamaProvider.getModelList from the moment ollama.list() settles
AfterList(transport) ==
    IF transport.kind = "reply" THEN Returned(transport.models)
    ELSE Returned(<<>>)

ProviderInit ==
    /\ pkind \in ProviderKinds
    /\ papiKey \in ApiKeys
    /\ pmodel \in ModelNames
    /\ ppc = "idle"
    /\ pop = "none"
    /\ prequests = 0
    /\ ptransport = NoOutcome
    /\ presult = NoOutcome

\* resolveConflict up to the transport call
ProviderResolve ==
    /\ ppc = "idle"
    /\ pop' = "resolveConflict"
    /\ IF RequiresApiKey(pkind) /\ papiKey = ""
       THEN /\ presult' = MissingKey(pkind)
            /\ ppc' = "thrown"
            /\ UNCHANGED prequests
       ELSE /\ prequests' = prequests + 1
            /\ ppc' = "awaiting"
            /\ UNCHANGED presult
    /\ UNCHANGED <<pkind, papiKey, pmodel, ptransport>>

\* the transport call settles and resolveConflict returns or throws
ProviderSettles ==
    /\ ppc = "awaiting"
    /\ pop = "resolveConflict"
    /\ \E transport \in TransportOutcomes :
          /\ ptransport' = transport
          /\ presult' = AfterTransport(pkind, transport)
          /\ ppc' = IF AfterTransport(pkind, transport).kind = "ok"
                    THEN "returned" ELSE "thrown"
    /\ UNCHANGED <<pkind, papiKey, pmodel, prequests, pop>>

\* validateConfiguration up to the transport call
ProviderValidate ==
    /\ ppc = "idle"
    /\ pop' = "validateConfiguration"
    /\ IF ValidationShortCircuits(pkind, papiKey)
       THEN /\ presult' = Returned(FALSE)
            /\ ppc' = "returned"
            /\ UNCHANGED prequests
       ELSE /\ prequests' = prequests + 1
            /\ ppc' = "awaiting"
            /\ UNCHANGED presult
    /\ UNCHANGED <<pkind, papiKey, pmodel, ptransport>>

\* the transport call settles and validateConfiguration returns
ProviderValidateSettles ==
    /\ ppc = "awaiting"
    /\ pop = "validateConfiguration"
    /\ \E transport \in (IF pkind = "ollama" THEN ListOutcomes ELSE ProbeOutcomes) :
          /\ ptransport' = transport
          /\ presult' = AfterProbe(pkind, pmodel, transport)
    /\ ppc' = "returned"
    /\ UNCHANGED <<pkind, papiKey, pmodel, prequests, pop>>

\* getModelList: the hosted variants return a fixed list, the local variant
\* calls ollama.list()
ProviderListModels ==
    /\ ppc = "idle"
    /\ pop' = "getModelList"
    /\ IF pkind = "ollama"
       THEN /\ prequests' = prequests + 1
            /\ ppc' = "awaiting"
            /\ UNCHANGED presult
       ELSE /\ presult' = Returned(FixedModelList(pkind))
            /\ ppc' = "returned"
            /\ UNCHANGED prequests
    /\ UNCHANGED <<pkind, papiKey, pmodel, ptransport>>

\* ollama.list() settles and getModelList returns
ProviderListSettles ==
    /\ ppc = "awaiting"
    /\ pop = "getModelList"
    /\ \E transport \in ListOutcomes :
          /\ ptransport' = transport
          /\ presult' = AfterList(transport)
    /\ ppc' = "returned"
    /\ UNCHANGED <<pkind, papiKey, pmodel, prequests, pop>>

-----------------------------------------------------------------------------
(* AIProviderManager *)

HostedKinds == {"openai", "claude"}

\* a value of the setting 'provider' that names no variant
UnknownKind == "other"

\* getProviderConfig line 184
ConfigTemperature == 30

\* currentProvider = null
NoProvider == [kind |-> "none"]

\* new OllamaProvider(config), new OpenAIProvider(config),
\* new ClaudeProvider(config): serial tells the objects apart
NewProvider(type, apiKey, serial) ==
    [kind |-> type, apiKey |-> apiKey, temperature |-> ConfigTemperature,
     serial |-> serial]

\* an asynchronous call of the manager that has not returned yet; latest is
\* the type asked for by the latest switchProvider call this call overlaps
\* with, kept for the properties only
Task(op, type, at) ==
    [op |-> op, type |-> type, pc |-> at, apiKey |-> "", serial |-> 0,
     latest |-> "none"]

\* switchProvider up to its first suspension: getProviderConfig returns at
\* once for the local variant and awaits secrets.get for a hosted one
SwitchTask(type) ==
    Task("switchProvider", type,
         IF type \in HostedKinds THEN "secretGet" ELSE "install")

RemoveAt(s, k) == SubSeq(s, 1, k - 1) \o SubSeq(s, k + 1, Len(s))

\* the error of getProvider
NotConfigured == Thrown("No AI provider is configured")

\* getProvider
getProvider(provider) ==
    IF provider = NoProvider THEN NotConfigured ELSE Returned(provider)

\* the orchestrator is not running
OrchestratorIdle ==
    [op |-> "none", pc |-> "idle", left |-> 0, held |-> NoProvider, used |-> <<>>]

\* the state after construction: the constructor has called
\* initializeProvider, which has called switchProvider without awaiting it
ManagerInit ==
    /\ providerType \in ProviderKinds \cup {UnknownKind}
    /\ secrets \in [HostedKinds -> ApiKeys]
    /\ currentProvider = NoProvider
    /\ tasks = <<SwitchTask(providerType)>>
    /\ constructed = 0
    /\ managerCalls = 0
    /\ orch = OrchestratorIdle

\* a call whose continuation is already queued: what it awaited has settled
\* without waiting for anything outside (getProviderConfig has returned; or
\* validateConfiguration has returned false without a request), so it runs
\* before any other event is handled
ContinuationDue(t) ==
    \/ t.pc = "install"
    \/ t.pc = "validating" /\ ValidationShortCircuits(t.type, t.apiKey)

\* no continuation is queued: the next event can be handled
Quiescent == \A k \in 1..Len(tasks) : ~ContinuationDue(tasks[k])

\* the switchProvider calls in progress
SwitchesInProgress == {k \in 1..Len(tasks) : tasks[k].op = "switchProvider"}

\* the calls in progress when switchProvider(type) is called, and the new call
Overlapping(type) ==
    Append([k \in 1..Len(tasks) |->
                IF k \in SwitchesInProgress
                THEN [tasks[k] EXCEPT !.latest = type] ELSE tasks[k]],
           [SwitchTask(type) EXCEPT
                !.latest = IF SwitchesInProgress # {} THEN type ELSE "none"])

\* switchProvider(type) is called
SwitchProvider ==
    /\ Quiescent
    /\ managerCalls < MaxManagerCalls
    /\ \E type \in ProviderKinds :
          tasks' = Overlapping(type)
    /\ managerCalls' = managerCalls + 1
    /\ UNCHANGED <<providerType, secrets, currentProvider, constructed, orch>>

\* getApiKey: secrets.get settles
SecretRead ==
    \E k \in 1..Len(tasks) :
        /\ Quiescent
        /\ tasks[k].pc = "secretGet"
        /\ tasks' = [tasks EXCEPT ![k] =
               IF secrets[tasks[k].type] # ""
               THEN [@ EXCEPT !.apiKey = secrets[tasks[k].type], !.pc = "install"]
               ELSE [@ EXCEPT !.pc = "prompt"]]
        /\ UNCHANGED <<providerType, secrets, currentProvider, constructed, managerCalls, orch>>

\* getApiKey: the input box is answered with a key, which is stored, or is
\* dismissed
PromptAnswered ==
    \E k \in 1..Len(tasks), input \in ApiKeys :
        /\ Quiescent
        /\ tasks[k].pc = "prompt"
        /\ tasks' = [tasks EXCEPT ![k] = [@ EXCEPT !.apiKey = input, !.pc = "install"]]
        /\ secrets' = IF input # ""
                      THEN [secrets EXCEPT ![tasks[k].type] = input]
                      ELSE secrets
        /\ UNCHANGED <<providerType, currentProvider, constructed, managerCalls, orch>>

\* switchProvider after getProviderConfig: the provider is constructed and
\* installed and validateConfiguration is called on it; an unknown type
\* throws
Install ==
    \E k \in 1..Len(tasks) :
        /\ tasks[k].pc = "install"
        /\ IF tasks[k].type \in ProviderKinds
           THEN /\ currentProvider' = NewProvider(tasks[k].type, tasks[k].apiKey,
                                                constructed + 1)
                /\ constructed' = constructed + 1
                /\ tasks' = [tasks EXCEPT ![k] =
                       [@ EXCEPT !.pc = "validating", !.serial = constructed + 1]]
           ELSE /\ tasks' = RemoveAt(tasks, k)
                /\ UNCHANGED <<currentProvider, constructed>>
        /\ UNCHANGED <<providerType, secrets, managerCalls, orch>>

\* what validateConfiguration of a provider can return
ValidationResults(type, apiKey) ==
    IF ValidationShortCircuits(type, apiKey) THEN {FALSE} ELSE BOOLEAN

\* an invalid configuration is reported and the provider is uninstalled
AfterValidationReverts(provider, isValid) ==
    IF isValid THEN provider ELSE NoProvider

\* switchProvider lines 158-161: currentProvider after the validation
AfterValidation(provider, isValid) == provider

\* switchProvider: validateConfiguration settles, a warning is shown when it
\* is false, and switchProvider returns
ValidationSettles ==
    \E k \in 1..Len(tasks) :
        /\ tasks[k].pc = "validating"
        /\ ContinuationDue(tasks[k]) \/ Quiescent
        /\ \E isValid \in ValidationResults(tasks[k].type, tasks[k].apiKey) :
              currentProvider' = AfterValidation(currentProvider, isValid)
        /\ tasks' = RemoveAt(tasks, k)
        /\ UNCHANGED <<providerType, secrets, constructed, managerCalls, orch>>

\* updateApiKey(provider, apiKey) up to the end of secrets.store
UpdateApiKey ==
    /\ Quiescent
    /\ managerCalls < MaxManagerCalls
    /\ \E provider \in HostedKinds, apiKey \in ApiKeys \ {""} :
          /\ secrets' = [secrets EXCEPT ![provider] = apiKey]
          /\ tasks' = Append(tasks, Task("updateApiKey", provider, "stored"))
    /\ managerCalls' = managerCalls + 1
    /\ UNCHANGED <<providerType, currentProvider, constructed, orch>>

\* updateApiKey lines 218-219
Reinitializes(provider, currentType) == currentType = provider

\* updateApiKey after secrets.store: switchProvider is called when the
\* provider is the configured one
UpdateApiKeyContinues ==
    \E k \in 1..Len(tasks) :
        /\ Quiescent
        /\ tasks[k].pc = "stored"
        /\ tasks' = IF Reinitializes(tasks[k].type, providerType)
                    THEN [tasks EXCEPT ![k] = SwitchTask(providerType)]
                    ELSE RemoveAt(tasks, k)
        /\ UNCHANGED <<providerType, secrets, currentProvider, constructed, managerCalls, orch>>

\* clearApiKey(provider)
ClearApiKey ==
    /\ Quiescent
    /\ managerCalls < MaxManagerCalls
    /\ \E provider \in HostedKinds :
          secrets' = [secrets EXCEPT ![provider] = ""]
    /\ managerCalls' = managerCalls + 1
    /\ UNCHANGED <<providerType, currentProvider, tasks, constructed, orch>>

\* the setting 'provider' changes
ProviderTypeChanges ==
    /\ Quiescent
    /\ \E type \in ProviderKinds :
          /\ type # providerType
          /\ providerType' = type
    /\ UNCHANGED <<secrets, currentProvider, tasks, constructed, managerCalls, orch>>

\* the methods of ConflictResolver that call the provider
OrchestratorOps == {"resolveConflict", "resolveAllConflicts", "getSuggestions"}

\* ConflictResolver, as far as the provider is concerned: resolveConflict
\* and each conflict of resolveAllConflicts ask getProvider() for the
\* provider, getSuggestions asks once before its loop
OrchestratorCall ==
    /\ Quiescent
    /\ orch.pc = "idle"
    /\ \E op \in OrchestratorOps, n \in {1, 2} :
          /\ op = "resolveConflict" => n = 1
          /\ orch' =
                 IF op = "getSuggestions" /\ currentProvider = NoProvider
                 THEN [orch EXCEPT !.op = op, !.pc = "thrown"]
                 ELSE [orch EXCEPT !.op = op, !.pc = "loop", !.left = n,
                                   !.held = IF op = "getSuggestions"
                                            THEN currentProvider ELSE NoProvider]
    /\ UNCHANGED <<providerType, secrets, currentProvider, tasks, constructed, managerCalls>>

\* the provider the next call of the orchestrator goes to
ProviderOfCall ==
    IF orch.op = "getSuggestions" THEN orch.held ELSE currentProvider

\* the orchestrator issues its next call of provider.resolveConflict, or
\* returns when none is left; without a provider resolveConflict throws and
\* resolveAllConflicts, told to continue, goes on with the next conflict
OrchestratorNext ==
    /\ Quiescent
    /\ orch.pc = "loop"
    /\ orch' =
           IF orch.left = 0 THEN [orch EXCEPT !.pc = "returned"]
           ELSE IF ProviderOfCall = NoProvider
           THEN IF orch.op = "resolveConflict"
                THEN [orch EXCEPT !.pc = "thrown"]
                ELSE [orch EXCEPT !.left = @ - 1]
           ELSE [orch EXCEPT !.pc = "awaiting",
                             !.used = Append(@, ProviderOfCall.serial)]
    /\ UNCHANGED <<providerType, secrets, currentProvider, tasks, constructed, managerCalls>>

\* the call of provider.resolveConflict settles
OrchestratorSettles ==
    /\ Quiescent
    /\ orch.pc = "awaiting"
    /\ orch' = [orch EXCEPT !.pc = "loop", !.left = @ - 1]
    /\ UNCHANGED <<providerType, secrets, currentProvider, tasks, constructed, managerCalls>>

-----------------------------------------------------------------------------
(* ConflictResolver: resolveConflict and getSuggestions *)

\* the default of the parameter contextLines of extractContext
DefaultContextLines == 50

\* getSuggestions line 186
temperatures == <<20, 50, 80>>

\* the temperature a provider sends when its config holds none:
\* OllamaProvider line 24, OpenAIProvider line 34, ClaudeProvider line 25
DefaultTemperature == 30

\* this.config.temperature || 0.3
SentTemperature(provider) ==
    IF provider.temperature # 0 THEN provider.temperature ELSE DefaultTemperature

\* a document with a block that has a base section
BaseDoc ==
    <<TextB, StartLine, TextA, BaseLine, TextB, SepLine, TextA, EndLine, TextA>>

\* a document with a block whose base section is one empty line
EmptyBaseDoc ==
    <<StartLine, TextA, BaseLine, EmptyLine, SepLine, TextB, EndLine>>

SuggestDocs == ContextDocs \cup {BaseDoc, EmptyBaseDoc}

Languages == {"typescript"}

\* the values getContextLines() can return: the default, or a configured one
ContextLineSettings == {DefaultContextLines} \cup 0..MaxContext

\* the providers getProvider() can return
InstalledProviders ==
    {NewProvider("ollama", "", 1), NewProvider("openai", "sk-key", 1)}

\* the values passed as count
CountArgs == -1..4

\* extractContext(document, conflict): resolveConflict line 26,
\* getSuggestions line 190
ContextOf(text, conflict) == extractContext(text, conflict, DefaultContextLines)

\* the request: resolveConflict lines 31-38, getSuggestions lines 191-198;
\* baseContent is undefined when the conflict has none
RequestOf(text, conflict, language) ==
    LET request ==
            [currentContent |-> conflict.currentContent,
             incomingContent |-> conflict.incomingContent,
             context |-> ContextOf(text, conflict),
             filePath |-> conflict.filePath,
             language |-> language]
    IN  IF Defined(conflict, "baseContent")
        THEN SetField(request, "baseContent", conflict.baseContent)
        ELSE request

\* a prompt is the sequence of its pieces: the fixed text of the template and
\* the values interpolated into it
Fixed(words) == [fixed |-> words]
Interpolated(value) == [interpolated |-> value]

\* if (request.baseContent): a string is truthy when it is not empty
HasBaseContent(request) ==
    Defined(request, "baseContent") /\ request.baseContent # <<>>

\* the base section is written whenever the request has the field
BaseSectionWhenDefined(request) ==
    IF Defined(request, "baseContent")
    THEN <<Fixed("BASE VERSION (common ancestor):"),
           Interpolated(request.baseContent)>>
    ELSE <<>>

\* buildPrompt lines 54-61
BaseSection(request) ==
    IF HasBaseContent(request)
    THEN <<Fixed("BASE VERSION (common ancestor):"),
           Interpolated(request.baseContent)>>
    ELSE <<>>

\* AIProvider.buildPrompt
buildPrompt(request) ==
    <<Fixed("You are an expert developer helping to resolve a merge conflict in"),
      Interpolated(request.filePath),
      Fixed("CURRENT VERSION (HEAD):"),
      Interpolated(request.currentContent),
      Fixed("INCOMING VERSION:"),
      Interpolated(request.incomingContent)>>
    \o BaseSection(request)
    \o <<Fixed("SURROUNDING CONTEXT:"),
          Interpolated(request.context),
          Fixed("Please analyze this merge conflict and provide:"),
          Fixed("Consider:"),
          Fixed("Respond in JSON format:")>>

\* provider.resolveConflict(request), as issued; the provider builds its
\* prompt first (OllamaProvider line 16, OpenAIProvider line 18,
\* ClaudeProvider line 18)
Call(request, provider) ==
    [request |-> request, prompt |-> buildPrompt(request),
     provider |-> provider.serial,
     temperature |-> SentTemperature(provider), outcome |-> "pending"]

\* what the k-th call resolves to when it succeeds
ResponseTo(k) == [call |-> k]

\* the loop takes as many rounds as asked for
SuggestionLimitUncapped(count) == count

\* getSuggestions line 188: Math.min(count, temperatures.length)
SuggestionLimit(count) == Min(count, Len(temperatures))

SuggestInit ==
    /\ sdoc \in {Join(d) : d \in SuggestDocs}
    /\ sconflict = detectConflictsInFile(sdoc, FileName)[1]
    /\ slanguage \in Languages
    /\ configuredContextLines \in ContextLineSettings
    /\ sop = "none"
    /\ spc = "idle"
    /\ scount = 0
    /\ si = 0
    /\ sprovider = NoProvider
    /\ scalls = <<>>
    /\ suggestions = <<>>
    /\ sreturned = NoOutcome

\* resolveConflict(document, conflict) up to the call of the provider
ResolveConflictCall ==
    /\ spc = "idle"
    /\ sop' = "resolveConflict"
    /\ IF getProvider(currentProvider) = NotConfigured
       THEN /\ spc' = "thrown"
            /\ sreturned' = NotConfigured
            /\ UNCHANGED <<sprovider, scalls>>
       ELSE /\ sprovider' = currentProvider
            /\ scalls' = <<Call(RequestOf(sdoc, sconflict, slanguage), currentProvider)>>
            /\ spc' = "awaiting"
            /\ UNCHANGED sreturned
    /\ UNCHANGED <<sdoc, sconflict, slanguage, configuredContextLines, scount,
                   si, suggestions>>

\* the call settles and resolveConflict returns its response or throws its
\* error
ResolveConflictSettles ==
    /\ spc = "awaiting"
    /\ sop = "resolveConflict"
    /\ \E ok \in BOOLEAN :
          /\ scalls' = [scalls EXCEPT ![1].outcome = IF ok THEN "ok" ELSE "error"]
          /\ sreturned' = IF ok THEN Returned(ResponseTo(1))
                          ELSE Thrown("backend unreachable")
          /\ spc' = IF ok THEN "returned" ELSE "thrown"
    /\ UNCHANGED <<sdoc, sconflict, slanguage, configuredContextLines, sop,
                   scount, si, sprovider, suggestions>>

\* getSuggestions(document, conflict, count) up to its loop
GetSuggestions ==
    /\ spc = "idle"
    /\ sop' = "getSuggestions"
    /\ \E count \in CountArgs : scount' = count
    /\ IF getProvider(currentProvider) = NotConfigured
       THEN /\ spc' = "thrown"
            /\ sreturned' = NotConfigured
            /\ UNCHANGED sprovider
       ELSE /\ sprovider' = currentProvider
            /\ spc' = "loop"
            /\ UNCHANGED sreturned
    /\ UNCHANGED <<sdoc, sconflict, slanguage, configuredContextLines, si,
                   scalls, suggestions>>

\* a round of the loop up to the call of the provider
SuggestIssue ==
    /\ spc = "loop"
    /\ si < SuggestionLimit(scount)
    /\ scalls' = Append(scalls, Call(RequestOf(sdoc, sconflict, slanguage), sprovider))
    /\ spc' = "awaiting"
    /\ UNCHANGED <<sdoc, sconflict, slanguage, configuredContextLines, sop,
                   scount, si, sprovider, suggestions, sreturned>>

\* the new suggestion is put in front
Unshifted(list, response) == <<response>> \o list

\* suggestions.push(resolution)
Pushed(list, response) == Append(list, response)

\* the call settles: its response is collected, its failure is logged
SuggestSettles ==
    /\ spc = "awaiting"
    /\ sop = "getSuggestions"
    /\ \E ok \in BOOLEAN :
          /\ scalls' = [scalls EXCEPT ![Len(scalls)].outcome =
                                          IF ok THEN "ok" ELSE "error"]
          /\ suggestions' = IF ok THEN Pushed(suggestions, ResponseTo(si + 1))
                            ELSE suggestions
    /\ si' = si + 1
    /\ spc' = "loop"
    /\ UNCHANGED <<sdoc, sconflict, slanguage, configuredContextLines, sop,
                   scount, sprovider, sreturned>>

\* the loop ends and getSuggestions returns
SuggestReturn ==
    /\ spc = "loop"
    /\ si >= SuggestionLimit(scount)
    /\ sreturned' = Returned(suggestions)
    /\ spc' = "returned"
    /\ UNCHANGED <<sdoc, sconflict, slanguage, configuredContextLines, sop,
                   scount, si, sprovider, scalls, suggestions>>

-----------------------------------------------------------------------------
(* ConfigurationManager *)

\* the settings of the section 'mergeai'
SettingKeys ==
    {"provider", "ollamaUrl", "ollamaModel", "openaiModel", "claudeModel",
     "autoResolve", "contextLines"}

\* the second argument of this.config.get in each getter; numbers are in
\* hundredths
DefaultOf(key) ==
    CASE key = "provider" -> JSLiteral("ollama")
      [] key = "ollamaUrl" -> JSLiteral("http://localhost:11434")
      [] key = "ollamaModel" -> JSLiteral("codellama")
      [] key = "openaiModel" -> JSLiteral("gpt-4")
      [] key = "claudeModel" -> JSLiteral("claude-3-opus-20240229")
      [] key = "autoResolve" -> JSBool(FALSE)
      [] key = "contextLines" -> JSNumber(DefaultContextLines * 100)

\* another value of each setting
OtherOf(key) ==
    CASE key = "provider" -> JSLiteral("openai")
      [] key = "ollamaUrl" -> JSLiteral("http://localhost:8080")
      [] key = "ollamaModel" -> JSLiteral("llama2")
      [] key = "openaiModel" -> JSLiteral("gpt-3.5-turbo")
      [] key = "claudeModel" -> JSLiteral("claude-2.1")
      [] key = "autoResolve" -> JSBool(TRUE)
      [] key = "contextLines" -> JSNumber(1000)

\* the values passed to the setter of a setting
ValuesOf(key) == {DefaultOf(key), OtherOf(key)}

\* no setting has a value
NoSettings == [key \in SettingKeys |-> JSUndefined]

\* this.config.get(key, defaultValue): the value of the snapshot, or the
\* default when it has none
configGet(snapshot, key) ==
    IF snapshot[key] = JSUndefined THEN DefaultOf(key) ELSE snapshot[key]

\* lines 75-83
getAllSettings(snapshot) ==
    [key \in SettingKeys |-> configGet(snapshot, key)]

\* the state after construction: this.config is the configuration of the
\* section as it is then
ConfigInit ==
    /\ stored = NoSettings
    /\ config = stored
    /\ pendingUpdates = <<>>
    /\ cop = NoOutcome
    /\ cresult = NoOutcome
    /\ lastSet = NoSettings
    /\ setCalls = 0

\* setProviderType, setOllamaUrl, setOllamaModel, setOpenAIModel,
\* setClaudeModel, setAutoResolve, setContextLines: this.config.update is
\* called and its result is not awaited
SetSetting ==
    /\ setCalls < MaxSets
    /\ \E key \in SettingKeys :
          \E value \in ValuesOf(key) :
              /\ pendingUpdates' = Append(pendingUpdates, [key |-> key, value |-> value])
              /\ lastSet' = [lastSet EXCEPT ![key] = value]
              /\ cop' = [kind |-> "set", key |-> key]
    /\ cresult' = NoOutcome
    /\ setCalls' = setCalls + 1
    /\ UNCHANGED <<stored, config>>

\* getProviderType, getOllamaUrl, getOllamaModel, getOpenAIModel,
\* getClaudeModel, getAutoResolve, getContextLines
GetSetting ==
    /\ \E key \in SettingKeys :
          /\ cop' = [kind |-> "get", key |-> key]
          /\ cresult' = configGet(config, key)
    /\ UNCHANGED <<stored, config, pendingUpdates, lastSet, setCalls>>

\* getAllSettings
GetAllSettings ==
    /\ cop' = [kind |-> "getAllSettings", key |-> ""]
    /\ cresult' = getAllSettings(config)
    /\ UNCHANGED <<stored, config, pendingUpdates, lastSet, setCalls>>

\* an update is written, the configuration change is announced and the
\* listener of the constructor takes the new configuration
ConfigurationChanged ==
    /\ pendingUpdates # <<>>
    /\ stored' = [stored EXCEPT ![Head(pendingUpdates).key] = Head(pendingUpdates).value]
    /\ config' = stored'
    /\ pendingUpdates' = Tail(pendingUpdates)
    /\ UNCHANGED <<cop, cresult, lastSet, setCalls>>

\* an update is rejected; nothing awaits it
UpdateRejected ==
    /\ pendingUpdates # <<>>
    /\ pendingUpdates' = Tail(pendingUpdates)
    /\ UNCHANGED <<stored, config, cop, cresult, lastSet, setCalls>>

-----------------------------------------------------------------------------
(* Specifications *)

DetectIdle ==
    /\ dpc = "idle"
    /\ dtext = <<>>
    /\ lines = <<>>
    /\ i = 0
    /\ det = DetectLocals
    /\ detected = <<>>

BatchIdle ==
    /\ workspace = <<>>
    /\ buffer = <<>>
    /\ dirty = <<>>
    /\ pc = "idle"
    /\ allConflicts = <<>>
    /\ fileIdx = 1
    /\ sortedConflicts = <<>>
    /\ conflictIdx = 1
    /\ resolvedCount = 0
    /\ results = <<>>
    /\ token = FALSE
    /\ resolution = NoOutcome
    /\ backend = NoOutcome
    /\ callCount = 0
    /\ faults = 0
    /\ summary = NoOutcome
    /\ returned = <<>>
    /\ onePc = "idle"
    /\ oneOutcome = NoOutcome

QueryIdle ==
    /\ qtext = <<>>
    /\ qconflicts = <<>>
    /\ qop = "none"
    /\ qarg = NoOutcome
    /\ qresult = NoOutcome

ProviderIdle ==
    /\ pkind = "ollama"
    /\ papiKey = ""
    /\ ppc = "idle"
    /\ prequests = 0
    /\ ptransport = NoOutcome
    /\ presult = NoOutcome
    /\ pop = "none"
    /\ pmodel = <<>>

ManagerIdle ==
    /\ providerType = "ollama"
    /\ secrets = [k \in HostedKinds |-> ""]
    /\ currentProvider = NoProvider
    /\ tasks = <<>>
    /\ constructed = 0
    /\ managerCalls = 0
    /\ orch = OrchestratorIdle

\* the manager at rest, with or without a provider installed
ManagerAtRest ==
    /\ providerType \in {"ollama", "openai"}
    /\ secrets = [k \in HostedKinds |-> IF k = providerType THEN "sk-key" ELSE ""]
    /\ currentProvider \in {NoProvider} \cup InstalledProviders
    /\ currentProvider # NoProvider => currentProvider.kind = providerType
    /\ tasks = <<>>
    /\ constructed = (IF currentProvider = NoProvider THEN 0 ELSE 1)
    /\ managerCalls = 0
    /\ orch = OrchestratorIdle

ConfigIdle ==
    /\ stored = NoSettings
    /\ config = NoSettings
    /\ pendingUpdates = <<>>
    /\ cop = NoOutcome
    /\ cresult = NoOutcome
    /\ lastSet = NoSettings
    /\ setCalls = 0

SuggestIdle ==
    /\ sdoc = <<>>
    /\ sconflict = null
    /\ slanguage = ""
    /\ configuredContextLines = DefaultContextLines
    /\ sop = "none"
    /\ spc = "idle"
    /\ scount = 0
    /\ si = 0
    /\ sprovider = NoProvider
    /\ scalls = <<>>
    /\ suggestions = <<>>
    /\ sreturned = NoOutcome

InitDetect == DetectInit /\ BatchIdle /\ QueryIdle
        /\ ProviderIdle /\ ManagerIdle /\ SuggestIdle /\ ConfigIdle

NextDetect ==
    \/ DetectBegin /\ UNCHANGED <<bvars, qvars, pvars, mvars, svars, cvars>>
    \/ DetectLine /\ UNCHANGED <<bvars, qvars, pvars, mvars, svars, cvars>>
    \/ DetectReturn /\ UNCHANGED <<bvars, qvars, pvars, mvars, svars, cvars>>

SpecDetect == InitDetect /\ [][NextDetect]_vars

Init == BatchInit /\ DetectIdle /\ QueryIdle
        /\ ProviderIdle /\ ManagerIdle /\ SuggestIdle /\ ConfigIdle

Next ==
    \/ BatchStart /\ UNCHANGED <<dvars, qvars, pvars, mvars, svars, cvars>>
    \/ CancelRequested /\ UNCHANGED <<dvars, qvars, pvars, mvars, svars, cvars>>
    \/ FileLoop /\ UNCHANGED <<dvars, qvars, pvars, mvars, svars, cvars>>
    \/ ConflictLoop /\ UNCHANGED <<dvars, qvars, pvars, mvars, svars, cvars>>
    \/ ResolveReturns /\ UNCHANGED <<dvars, qvars, pvars, mvars, svars, cvars>>
    \/ ResolveThrows /\ UNCHANGED <<dvars, qvars, pvars, mvars, svars, cvars>>
    \/ ErrorPrompt /\ UNCHANGED <<dvars, qvars, pvars, mvars, svars, cvars>>
    \/ Apply /\ UNCHANGED <<dvars, qvars, pvars, mvars, svars, cvars>>
    \/ RetryPrompt /\ UNCHANGED <<dvars, qvars, pvars, mvars, svars, cvars>>
    \/ RetryApply /\ UNCHANGED <<dvars, qvars, pvars, mvars, svars, cvars>>
    \/ Summary /\ UNCHANGED <<dvars, qvars, pvars, mvars, svars, cvars>>
    \/ ResolveOneCall /\ UNCHANGED <<dvars, qvars, pvars, mvars, svars, cvars>>
    \/ ResolveOneSettles /\ UNCHANGED <<dvars, qvars, pvars, mvars, svars, cvars>>

Spec == Init /\ [][Next]_vars

InitQuery == QueryInit /\ DetectIdle /\ BatchIdle
        /\ ProviderIdle /\ ManagerIdle /\ SuggestIdle /\ ConfigIdle

NextQuery ==
    \/ HasConflicts /\ UNCHANGED <<dvars, bvars, pvars, mvars, svars, cvars>>
    \/ GetConflictAtPosition /\ UNCHANGED <<dvars, bvars, pvars, mvars, svars, cvars>>
    \/ ExtractContext /\ UNCHANGED <<dvars, bvars, pvars, mvars, svars, cvars>>

SpecQuery == InitQuery /\ [][NextQuery]_vars

InitProvider == ProviderInit /\ DetectIdle /\ BatchIdle
        /\ QueryIdle /\ ManagerIdle /\ SuggestIdle /\ ConfigIdle

NextProvider ==
    \/ ProviderResolve /\ UNCHANGED <<dvars, bvars, qvars, mvars, svars, cvars>>
    \/ ProviderSettles /\ UNCHANGED <<dvars, bvars, qvars, mvars, svars, cvars>>
    \/ ProviderValidate /\ UNCHANGED <<dvars, bvars, qvars, mvars, svars, cvars>>
    \/ ProviderValidateSettles /\ UNCHANGED <<dvars, bvars, qvars, mvars, svars, cvars>>
    \/ ProviderListModels /\ UNCHANGED <<dvars, bvars, qvars, mvars, svars, cvars>>
    \/ ProviderListSettles /\ UNCHANGED <<dvars, bvars, qvars, mvars, svars, cvars>>

SpecProvider == InitProvider /\ [][NextProvider]_vars

InitManager ==
    ManagerInit /\ DetectIdle /\ BatchIdle /\ QueryIdle /\ ProviderIdle
        /\ SuggestIdle /\ ConfigIdle

NextManager ==
    \/ SwitchProvider /\ UNCHANGED <<dvars, bvars, qvars, pvars, svars, cvars>>
    \/ SecretRead /\ UNCHANGED <<dvars, bvars, qvars, pvars, svars, cvars>>
    \/ PromptAnswered /\ UNCHANGED <<dvars, bvars, qvars, pvars, svars, cvars>>
    \/ Install /\ UNCHANGED <<dvars, bvars, qvars, pvars, svars, cvars>>
    \/ ValidationSettles /\ UNCHANGED <<dvars, bvars, qvars, pvars, svars, cvars>>
    \/ UpdateApiKey /\ UNCHANGED <<dvars, bvars, qvars, pvars, svars, cvars>>
    \/ UpdateApiKeyContinues /\ UNCHANGED <<dvars, bvars, qvars, pvars, svars, cvars>>
    \/ ClearApiKey /\ UNCHANGED <<dvars, bvars, qvars, pvars, svars, cvars>>
    \/ ProviderTypeChanges /\ UNCHANGED <<dvars, bvars, qvars, pvars, svars, cvars>>
    \/ OrchestratorCall /\ UNCHANGED <<dvars, bvars, qvars, pvars, svars, cvars>>
    \/ OrchestratorNext /\ UNCHANGED <<dvars, bvars, qvars, pvars, svars, cvars>>
    \/ OrchestratorSettles /\ UNCHANGED <<dvars, bvars, qvars, pvars, svars, cvars>>

SpecManager == InitManager /\ [][NextManager]_vars

InitSuggest ==
    SuggestInit /\ DetectIdle /\ BatchIdle /\ QueryIdle /\ ProviderIdle
        /\ ManagerAtRest /\ ConfigIdle

NextSuggest ==
    \/ ResolveConflictCall /\ UNCHANGED <<dvars, bvars, qvars, pvars, mvars, cvars>>
    \/ ResolveConflictSettles /\ UNCHANGED <<dvars, bvars, qvars, pvars, mvars, cvars>>
    \/ GetSuggestions /\ UNCHANGED <<dvars, bvars, qvars, pvars, mvars, cvars>>
    \/ SuggestIssue /\ UNCHANGED <<dvars, bvars, qvars, pvars, mvars, cvars>>
    \/ SuggestSettles /\ UNCHANGED <<dvars, bvars, qvars, pvars, mvars, cvars>>
    \/ SuggestReturn /\ UNCHANGED <<dvars, bvars, qvars, pvars, mvars, cvars>>

SpecSuggest == InitSuggest /\ [][NextSuggest]_vars

InitConfig ==
    ConfigInit /\ DetectIdle /\ BatchIdle /\ QueryIdle /\ ProviderIdle
        /\ ManagerIdle /\ SuggestIdle

NextConfig ==
    \/ SetSetting /\ UNCHANGED <<dvars, bvars, qvars, pvars, mvars, svars>>
    \/ GetSetting /\ UNCHANGED <<dvars, bvars, qvars, pvars, mvars, svars>>
    \/ GetAllSettings /\ UNCHANGED <<dvars, bvars, qvars, pvars, mvars, svars>>
    \/ ConfigurationChanged /\ UNCHANGED <<dvars, bvars, qvars, pvars, mvars, svars>>
    \/ UpdateRejected /\ UNCHANGED <<dvars, bvars, qvars, pvars, mvars, svars>>

SpecConfig == InitConfig /\ [][NextConfig]_vars

-----------------------------------------------------------------------------
(* Properties of detectConflictsInFile *)

LineIdx == 0..(Len(lines) - 1)

\* lines s, m, e are the start marker, separator and end marker of a 2-way
\* block and no other line of the document is a marker
OneBlock(s, m, e) ==
    /\ s < m /\ m < e
    /\ conflictStartPattern(lines[s + 1])
    /\ conflictSeparatorPattern(lines[m + 1])
    /\ conflictEndPattern(lines[e + 1])
    /\ \A k \in LineIdx \ {s, m, e} : ~IsMarker(lines[k + 1])

\* C1: a document holding one well-formed 2-way block with N current and M
\* incoming lines yields exactly one conflict, with the joined current and
\* incoming lines as contents, separatorLine = startLine + N + 1 and
\* endLine - startLine = N + M + 2.
C1_WellFormedTwoWay ==
    dpc = "done" =>
        \A s, m, e \in LineIdx :
            OneBlock(s, m, e) =>
                /\ Len(detected) = 1
                /\ detected[1].startLine = s
                /\ detected[1].currentContent = Join(SubSeq(lines, s + 2, m))
                /\ detected[1].incomingContent = Join(SubSeq(lines, m + 2, e))
                /\ detected[1].separatorLine = detected[1].startLine + (m - s - 1) + 1
                /\ detected[1].endLine - detected[1].startLine
                       = (m - s - 1) + (e - m - 1) + 2

C1_Witness ==
    /\ dpc = "done"
    /\ \E s, m, e \in LineIdx :
          /\ OneBlock(s, m, e)
          /\ m - s - 1 >= 1
          /\ e - m - 1 >= 1
          /\ Len(detected) = 1

\* line s is a start marker and no later line is an end marker
OpenStart(s) ==
    /\ conflictStartPattern(lines[s + 1])
    /\ \A k \in LineIdx : k > s => ~conflictEndPattern(lines[k + 1])

\* C2: a start marker with no end marker after it contributes no conflict;
\* the result is the result for the text above that start marker.
C2_UnterminatedDropped ==
    dpc = "done" =>
        \A s \in LineIdx :
            OpenStart(s) =>
                /\ \A k \in 1..Len(detected) : detected[k].startLine # s
                /\ \A k \in 1..Len(detected) : detected[k].endLine < s
                /\ detected = detectConflictsInFile(Join(SubSeq(lines, 1, s)), FileName)

C2_Witness ==
    /\ dpc = "done"
    /\ \E s \in LineIdx : OpenStart(s) /\ s > 0
    /\ Len(detected) = 1

CompleteRecord(c) ==
    /\ MergeConflictFields \subseteq DOMAIN c
    /\ c.startLine < c.separatorLine
    /\ c.separatorLine < c.endLine

\* C3: every conflict returned by detect is a complete record with
\* startLine < separatorLine < endLine.
C3_CompleteRecords ==
    dpc = "done" => \A k \in 1..Len(detected) : CompleteRecord(detected[k])

-----------------------------------------------------------------------------
(* Properties of resolveConflict, applyResolution and resolveAllConflicts *)

\* the lines [startLine, endLine] of file f still hold the block detected there
SpanIntact(c, f) ==
    LET now == Split(buffer[f])
        before == Split(workspace[f])
    IN  /\ c.endLine < Len(now)
        /\ SubSeq(now, c.startLine + 1, c.endLine + 1)
               = SubSeq(before, c.startLine + 1, c.endLine + 1)
        /\ conflictStartPattern(now[c.startLine + 1])
        /\ conflictEndPattern(now[c.endLine + 1])

Last(rs) == rs[Len(rs)]

ApplyPositions == {"applying", "retryApplying"}

C5_NoSecondEdit ==
    [][(pc = "retryApplying" /\ ~SpanIntact(CurrentConflict, CurrentFile))
           => buffer' = buffer]_vars

\* C6: an apply that succeeds on a document whose lines [startLine, endLine]
\* are the marker block leaves exactly the lines before startLine, the
\* resolution text and the lines after endLine.
C6_ApplyFrame ==
    [][(/\ pc \in ApplyPositions
        /\ pc' # pc
        /\ SpanIntact(CurrentConflict, CurrentFile)
        /\ Last(results').applied)
           => LET f == CurrentFile
                  c == CurrentConflict
                  ls == Split(buffer[f])
              IN  /\ Split(buffer'[f])
                         = SubSeq(ls, 1, c.startLine)
                               \o Split(resolution.resolution)
                               \o SubSeq(ls, c.endLine + 2, Len(ls))
                  /\ \A g \in DOMAIN buffer : g # f => buffer'[g] = buffer[g]]_vars

C6_Witness ==
    /\ pc = "conflictLoop"
    /\ Len(results) >= 1
    /\ Last(results).applied
    /\ buffer # workspace

\* C7: apply returns true only when the edit was applied and the document
\* was persisted, and false on any failure to apply or persist.
C7_TrueOnlyIfPersisted ==
    [][(pc \in ApplyPositions /\ pc' # pc /\ Last(results').applied)
           => (buffer'[CurrentFile] # buffer[CurrentFile] /\ ~dirty'[CurrentFile])]_vars

\* C8: a backend failure is the failure of resolveConflict called on its own;
\* in the batch it appends a result with applied = false and the failure
\* message as error, edits nothing, and the loop goes on with the next
\* conflict unless Cancel is chosen or the token is cancelled.
C8_BackendFailure ==
    /\ [](onePc = "thrown" => (backend.kind = "error" /\ oneOutcome = backend))
    /\ [][(pc = "resolving" /\ pc' # "resolving" /\ backend'.kind = "error")
              => /\ pc' = "errorPrompt"
                 /\ results' = Append(results,
                        [conflict |-> CurrentConflict,
                         resolution |-> [resolution |-> <<>>, explanation |-> "",
                                         confidence |-> 0],
                         applied |-> FALSE,
                         error |-> backend'.message])
                 /\ buffer' = buffer
                 /\ dirty' = dirty]_vars
    /\ [][(pc = "errorPrompt" /\ pc' # "errorPrompt")
              => /\ \/ pc' = "summary"
                    \/ pc' = "conflictLoop" /\ conflictIdx' = conflictIdx + 1
                 /\ results' = results
                 /\ buffer' = buffer]_vars
    /\ [][(/\ pc = "conflictLoop"
           /\ pc' # pc
           /\ conflictIdx <= Len(sortedConflicts)
           /\ ~token)
              => pc' = "resolving" /\ resolvedCount' = resolvedCount + 1]_vars

C8_Witness ==
    /\ pc = "resolving"
    /\ Len(results) >= 1
    /\ Last(results).error \in BackendErrors
    /\ ~Last(results).applied

RECURSIVE CountConflicts(_)
CountConflicts(entries) ==
    IF entries = <<>> THEN 0
    ELSE Len(Head(entries).conflicts) + CountConflicts(Tail(entries))

C10_CooperativeCancel ==
    /\ [][token => (resolvedCount' = resolvedCount /\ callCount' = callCount)]_vars
    /\ [][(pc = "applying" /\ pc' # pc) => Len(results') = resolvedCount]_vars
    /\ [](pc \in {"fileLoop", "conflictLoop", "summary", "returned"}
              => Len(results) = resolvedCount)

C10_Witness ==
    /\ token
    /\ pc = "conflictLoop"
    /\ conflictIdx <= Len(sortedConflicts)
    /\ resolvedCount >= 1
    /\ Len(results) = resolvedCount

-----------------------------------------------------------------------------
(* Termination of resolveAllConflicts *)

\* the steps a conflict can still take from each position
Rank(p) ==
    CASE p = "conflictLoop" -> 5
      [] p = "resolving" -> 4
      [] p = "applying" -> 3
      [] p = "errorPrompt" -> 3
      [] p = "retryPrompt" -> 2
      [] p = "retryApplying" -> 1

\* the steps a file can take at most: one of the file loop, six for each
\* conflict, and the last test of the conflict loop
FileCost(k) == 6 * Len(allConflicts[k].conflicts) + 7

RECURSIVE CostFrom(_)
CostFrom(k) == IF k > Len(allConflicts) THEN 0 ELSE FileCost(k) + CostFrom(k + 1)

\* an upper bound of the number of steps the run can still take
StepsLeft ==
    (IF token THEN 0 ELSE 1)
    + CASE pc = "returned" -> 0
        [] pc = "summary" -> 1
        [] pc = "fileLoop" -> 2 + CostFrom(fileIdx)
        [] OTHER -> 3 + CostFrom(fileIdx + 1)
                      + 6 * (Len(sortedConflicts) - conflictIdx + 1) + Rank(pc)

\* C11: in a batch run each conflict gets at most one backend call and at
\* most two apply attempts: a failed apply is followed by one prompt, a retry
\* overwrites applied of the last result and the loop takes the next
\* conflict; every step lowers a bound on the steps left, so the run ends
\* after a bounded number of steps when every call and prompt returns.
C11_BoundedRun ==
    /\ [](pc # "idle" => (callCount = resolvedCount
                             /\ resolvedCount <= CountConflicts(allConflicts)))
    /\ [][(pc # pc' /\ pc' = "applying") => pc = "resolving"]_vars
    /\ [][(pc # pc' /\ pc' = "retryPrompt") => pc = "applying"]_vars
    /\ [][(pc # pc' /\ pc' = "retryApplying") => pc = "retryPrompt"]_vars
    /\ [][(pc = "retryApplying" /\ pc' # pc)
              => /\ pc' = "conflictLoop"
                 /\ conflictIdx' = conflictIdx + 1
                 /\ Last(results).conflict = CurrentConflict
                 /\ \E b \in BOOLEAN :
                        results' = [results EXCEPT ![Len(results)].applied = b]]_vars
    /\ [][pc \notin {"idle", "returned"}
              => (StepsLeft' < StepsLeft /\ StepsLeft' >= 0)]_vars
    /\ [](pc = "fileLoop" /\ fileIdx = 1
              => StepsLeft <= 3 + 7 * Len(allConflicts)
                                + 6 * CountConflicts(allConflicts))

C11_Witness ==
    /\ pc = "returned"
    /\ \E k \in 1..Len(returned) :
          /\ returned[k].applied
          /\ returned[k].error = "Failed to apply edit"
    /\ callCount = CountConflicts(allConflicts)
    /\ callCount >= 2

-----------------------------------------------------------------------------
(* More properties of detectConflictsInFile *)

\* lines s, b, m, e are the start marker, base marker, separator and end
\* marker of a 3-way block and no other line of the document is a marker
ThreeWay(s, b, m, e) ==
    /\ s < b /\ b < m /\ m < e
    /\ conflictStartPattern(lines[s + 1])
    /\ conflictBasePattern(lines[b + 1])
    /\ conflictSeparatorPattern(lines[m + 1])
    /\ conflictEndPattern(lines[e + 1])
    /\ \A k \in LineIdx \ {s, b, m, e} : ~IsMarker(lines[k + 1])

NoBaseMarker == \A k \in LineIdx : ~conflictBasePattern(lines[k + 1])

NoBaseContent == \A k \in 1..Len(detected) : ~Defined(detected[k], "baseContent")

C15_EmptySections ==
    dpc = "done" =>
        \A s, m, e \in LineIdx :
            OneBlock(s, m, e) =>
                /\ Len(detected) = 1
                /\ m = s + 1 =>
                       /\ Defined(detected[1], "currentContent")
                       /\ detected[1].currentContent = <<>>
                       /\ detected[1].currentEnd = detected[1].currentStart - 1
                /\ e = m + 1 =>
                       /\ Defined(detected[1], "incomingContent")
                       /\ detected[1].incomingContent = <<>>
                       /\ detected[1].incomingEnd = detected[1].incomingStart - 1

C15_Witness ==
    /\ dpc = "done"
    /\ \E s, m, e \in LineIdx :
          /\ OneBlock(s, m, e)
          /\ m = s + 1
          /\ e = m + 2
    /\ Len(detected) = 1
    /\ detected[1].currentContent = <<>>
    /\ detected[1].incomingContent = TextA

\* the numbers of the marker lines, top to bottom
MarkerLines ==
    SelectSeq([k \in 1..Len(lines) |-> k - 1], LAMBDA n : IsMarker(lines[n + 1]))

Kind(line) ==
    CASE conflictStartPattern(line) -> "start"
      [] conflictSeparatorPattern(line) -> "separator"
      [] conflictEndPattern(line) -> "end"
      [] conflictBasePattern(line) -> "base"

\* the kinds of the marker lines, top to bottom
MarkerKinds == [k \in 1..Len(MarkerLines) |-> Kind(lines[MarkerLines[k] + 1])]

\* the markers of the document are those of two 2-way blocks, one after the other
TwoSequentialBlocks ==
    MarkerKinds = <<"start", "separator", "end", "start", "separator", "end">>

\* C13: the conflicts are returned top to bottom and their spans do not
\* overlap: each endLine is less than the next startLine; two sequential
\* well-formed blocks yield exactly two records, the upper block first.
C13_TopToBottom ==
    dpc = "done" =>
        /\ \A k \in 1..Len(detected) : detected[k].startLine < detected[k].endLine
        /\ \A k \in 1..(Len(detected) - 1) :
               detected[k].endLine < detected[k + 1].startLine
        /\ TwoSequentialBlocks =>
               /\ Len(detected) = 2
               /\ detected[1].startLine = MarkerLines[1]
               /\ detected[1].endLine = MarkerLines[3]
               /\ detected[2].startLine = MarkerLines[4]
               /\ detected[2].endLine = MarkerLines[6]

C13_Witness ==
    /\ dpc = "done"
    /\ TwoSequentialBlocks
    /\ Len(detected) = 2
    /\ detected[1].endLine < detected[2].startLine

Sections == {"current", "base", "incoming"}

\* the locals hold values of their declared types
LocalsDefined(st) ==
    /\ st.inConflict \in BOOLEAN
    /\ st.section \in Sections
    /\ st.currentConflict = null \/ Defined(st.currentConflict, "startLine")
    /\ Len(st.conflicts) >= 0

\* C18: detect is total: whatever markers the text holds, in any number and
\* order, each line is visited exactly once in one forward pass, no step
\* fails, and a list, possibly empty, is returned; a document with no
\* marker line yields the empty list.
C18_Total ==
    /\ [](dpc = "loop" => (i >= 0 /\ i <= Len(lines) /\ lines = Split(dtext)))
    /\ [](dpc = "loop" /\ i < Len(lines)
              => LocalsDefined(ParseStep(det, i, lines[i + 1], FileName)))
    /\ [][(dpc = "loop" /\ dpc' = "loop")
              => (i' = i + 1 /\ lines' = lines
                  /\ det' = ParseStep(det, i, lines[i + 1], FileName))]_vars
    /\ [][dpc' = "done" => (i' = Len(lines') /\ detected' = det'.conflicts)]_vars
    /\ [](dpc = "done" /\ MarkerLines = <<>> => detected = <<>>)
    /\ [](dpc = "done" => Len(detected) <= Len(lines))

C18_Witness ==
    /\ dpc = "done"
    /\ Len(lines) = 5
    /\ i = Len(lines)
    /\ conflictEndPattern(lines[1])
    /\ conflictBasePattern(lines[2])
    /\ conflictStartPattern(lines[3])
    /\ conflictStartPattern(lines[4])
    /\ conflictEndPattern(lines[5])
    /\ Len(detected) = 1

-----------------------------------------------------------------------------
(* Properties of the queries *)

\* the indices of the conflicts whose span contains the line
Containing(line) ==
    {k \in 1..Len(qconflicts) :
        qconflicts[k].startLine <= line /\ line <= qconflicts[k].endLine}

\* C14: conflictAt returns the first conflict in list order whose span
\* [startLine, endLine] contains the line, both boundary lines included, and
\* undefined when no span contains it; it does not modify the list.
C14_FirstContaining ==
    /\ [](qop = "getConflictAtPosition" =>
              IF Containing(qarg.line) = {}
              THEN qresult = undefinedConflict
              ELSE \E k \in Containing(qarg.line) :
                      /\ \A j \in Containing(qarg.line) : k <= j
                      /\ qresult = qconflicts[k])
    /\ [][qop' = "getConflictAtPosition" => qconflicts' = qconflicts]_vars

C14_Witness ==
    /\ qop = "getConflictAtPosition"
    /\ Cardinality(Containing(qarg.line)) = 2
    /\ qresult = qconflicts[1]
    /\ qarg.line = qresult.endLine
    /\ qconflicts[2].startLine < qresult.startLine

\* the lines a..b of the document, in document order
LinesOf(ls, a, b) == [k \in 1..(b - a + 1) |-> ls[a + k]]

\* C16: extractContext returns a before segment made of the lines
\* max(0, startLine - n) .. startLine - 1 and an after segment made of the
\* lines endLine + 1 .. min(lastLine, endLine + n), each in document order;
\* no line of the conflict is included, and a segment is empty when n = 0 or
\* the conflict touches that edge of the document.
C16_ContextWindow ==
    qop = "extractContext" =>
        LET ls == Split(qtext)
            c == qarg.conflict
            n == qarg.contextLines
            lastLine == Len(ls) - 1
            before == Join(LinesOf(ls, Max(0, c.startLine - n), c.startLine - 1))
            after == Join(LinesOf(ls, c.endLine + 1, Min(lastLine, c.endLine + n)))
        IN  (c.startLine <= c.endLine /\ c.endLine <= lastLine) =>
                /\ qresult = BeforeHeader \o <<NL>> \o before \o <<NL, NL>>
                                 \o AfterHeader \o <<NL>> \o after
                /\ (n = 0 \/ c.startLine = 0) => before = <<>>
                /\ (n = 0 \/ c.endLine = lastLine) => after = <<>>

C16_Witness ==
    /\ qop = "extractContext"
    /\ qarg.contextLines = 1
    /\ qarg.conflict.startLine = 2
    /\ qarg.conflict.endLine + 2 = Len(Split(qtext)) - 1
    /\ qresult = BeforeHeader \o <<NL>> \o TextB \o <<NL, NL>>
                     \o AfterHeader \o <<NL>> \o TextA

\* some line of the text satisfies the pattern
SomeLine(text, P(_)) == \E k \in 1..Len(Split(text)) : P(Split(text)[k])

\* C17: hasConflicts returns true exactly when a start-marker line, a
\* separator line and an end-marker line are each present somewhere in the
\* text, in any order; true for a multi-line document holding a well-formed
\* block and false for a document with no marker line.
C17_ExistenceProbe ==
    qop = "hasConflicts" =>
        (qresult <=> /\ SomeLine(qtext, conflictStartPattern)
                     /\ SomeLine(qtext, conflictSeparatorPattern)
                     /\ SomeLine(qtext, conflictEndPattern))

-----------------------------------------------------------------------------
(* Properties of the providers *)

NonEmptyString(x) == x.t = "string" /\ Truthy(x)

\* the transport call has succeeded and resolveConflict has settled
Replied ==
    /\ pop = "resolveConflict"
    /\ ppc \in {"returned", "thrown"}
    /\ ptransport.kind = "reply"

\* C19: when the transport call succeeds and the reply text is not valid
\* JSON, resolve returns a response whose resolution is the raw reply, whose
\* explanation is not empty and whose confidence lies in [0, 1]: 0.5 for the
\* local variant and 0.6 for the two hosted variants.
C19_MalformedReply ==
    (Replied /\ ptransport.content \in InvalidJsonReplies) =>
        /\ ~JSONParse(ptransport.content).ok
        /\ ppc = "returned"
        /\ presult.kind = "ok"
        /\ presult.response.resolution = JSString(ptransport.content)
        /\ NonEmptyString(presult.response.explanation)
        /\ presult.response.confidence.t = "number"
        /\ presult.response.confidence.v >= 0
        /\ presult.response.confidence.v <= 100
        /\ presult.response.confidence.v = (IF pkind = "ollama" THEN 50 ELSE 60)

C19_Witness ==
    /\ pop = "resolveConflict"
    /\ ppc = "returned"
    /\ pkind = "claude"
    /\ ptransport.kind = "reply"
    /\ ptransport.content = <<"{">> \o ResolutionMember
    /\ presult.response.confidence = JSNumber(60)

\* C20: a reply of a successful transport call that is not valid JSON, or is
\* valid JSON without resolution, explanation or confidence (a JSON value
\* that is not an object included), is returned as a response and never
\* makes resolve fail; resolve fails only when the backend is unreachable or
\* misconfigured.
C20_AnomalyRecovered ==
    /\ (Replied /\ ptransport.content
                       \in InvalidJsonReplies \cup IncompleteReplies
                               \cup NonObjectReplies)
           => (ppc = "returned" /\ presult.kind = "ok")
    /\ (pop = "resolveConflict" /\ ppc = "thrown")
           => \/ ptransport.kind = "error"
              \/ RequiresApiKey(pkind) /\ papiKey = ""

\* C21: every response that resolve returns carries a confidence that is a
\* number within [0, 1], whatever confidence the parsed reply held (absent,
\* 0, negative, above 1 or not a number).
C21_ConfidenceRange ==
    (pop = "resolveConflict" /\ ppc = "returned") =>
        /\ presult.response.confidence.t = "number"
        /\ presult.response.confidence.v >= 0
        /\ presult.response.confidence.v <= 100

\* a hosted variant for which no API key is configured
NoCredential == RequiresApiKey(pkind) /\ papiKey = ""

\* the method called has returned or thrown
Settled == ppc \in {"returned", "thrown"}

\* C22: with no credential configured, resolve of a hosted variant fails and
\* its validateConfig returns false, both without any network call;
\* validateConfig and listModels of every variant never fail: validateConfig
\* returns false and listModels the empty list when the call they make
\* fails.
C22_NoCredentialNoCall ==
    /\ (NoCredential /\ pop = "resolveConflict")
           => (ppc = "thrown" /\ presult.kind = "error" /\ prequests = 0)
    /\ (NoCredential /\ pop = "validateConfiguration")
           => (ppc = "returned" /\ presult = Returned(FALSE) /\ prequests = 0)
    /\ pop \in {"validateConfiguration", "getModelList"} => ppc # "thrown"
    /\ (pop = "validateConfiguration" /\ Settled /\ ptransport.kind # "reply")
           => presult = Returned(FALSE)
    /\ (pop = "getModelList" /\ Settled /\ pkind = "ollama"
            /\ ptransport.kind # "reply")
           => presult = Returned(<<>>)

C22_Witness ==
    /\ pkind = "claude"
    /\ papiKey = ""
    /\ pop = "validateConfiguration"
    /\ ppc = "returned"
    /\ presult = Returned(FALSE)
    /\ prequests = 0

-----------------------------------------------------------------------------
(* Properties of AIProviderManager *)

\* C23: getProvider fails with 'No AI provider is configured' exactly in the
\* states where no provider has been installed yet, the states in which the
\* switch started by the constructor has not constructed its provider
\* included; once a provider has been installed getProvider never fails
\* again.
C23_NotConfiguredUntilInstalled ==
    /\ [](getProvider(currentProvider) = NotConfigured <=> constructed = 0)
    /\ [][getProvider(currentProvider) # NotConfigured
              => getProvider(currentProvider') # NotConfigured]_vars

C23_Witness ==
    /\ getProvider(currentProvider) = NotConfigured
    /\ orch.op = "resolveConflict"
    /\ orch.pc = "thrown"
    /\ Len(tasks) = 1
    /\ tasks[1].op = "switchProvider"
    /\ tasks[1].pc = "prompt"
    /\ managerCalls = 0

\* the step is the return of the switchProvider call tasks[k]
SwitchReturns(k) ==
    /\ tasks[k].pc = "validating"
    /\ tasks' = RemoveAt(tasks, k)

\* C24: switchProvider(type) installs a newly constructed provider of the
\* requested type and then validates it, and a validation result of false
\* changes nothing, so when switchProvider(type) returns getProvider() is a
\* provider of that type whether the validation succeeded or not.
C24_SwitchInstallsKind ==
    [][\A k \in 1..Len(tasks) :
           SwitchReturns(k) =>
               /\ getProvider(currentProvider') # NotConfigured
               /\ currentProvider'.kind = tasks[k].type]_vars

\* the step is updateApiKey of tasks[k] calling switchProvider
SwitchTriggered(k) ==
    /\ tasks[k].pc = "stored"
    /\ Len(tasks') = Len(tasks)
    /\ tasks'[k].op = "switchProvider"

\* C25: a credential operation on a kind other than the kind of the active
\* provider triggers no switchProvider and leaves the active provider
\* unchanged.
C25_InactiveCredentialInert ==
    [][\A k \in 1..Len(tasks) :
           (/\ tasks[k].op = "updateApiKey"
            /\ currentProvider # NoProvider
            /\ currentProvider.kind # tasks[k].type)
               => ~SwitchTriggered(k)]_vars

\* a call of ConflictResolver is in progress
OrchestratorBusy == orch.pc \in {"loop", "awaiting"}

\* the calls of provider.resolveConflict issued so far by the call of
\* ConflictResolver went to one provider
SameBackend == \A j, k \in 1..Len(orch.used) : orch.used[j] = orch.used[k]

\* C26: the active provider is replaced only between calls of
\* ConflictResolver, never while resolveConflict, resolveAllConflicts or
\* getSuggestions is in progress, so all calls of provider.resolveConflict
\* issued by one of them go to the same provider.
C26_ReplacedBetweenCalls ==
    [][/\ (OrchestratorBusy /\ currentProvider # NoProvider)
              => currentProvider' = currentProvider
       /\ SameBackend']_vars

-----------------------------------------------------------------------------
(* Properties of resolveConflict and getSuggestions *)

RECURSIVE SucceededFrom(_, _)
\* the responses of the calls k.. that succeeded, in call order
SucceededFrom(calls, k) ==
    IF k > Len(calls) THEN <<>>
    ELSE IF calls[k].outcome = "ok"
    THEN <<ResponseTo(k)>> \o SucceededFrom(calls, k + 1)
    ELSE SucceededFrom(calls, k + 1)

\* C27: getSuggestions(document, conflict, count) issues exactly
\* min(count, 3) calls of resolve, none when count <= 0, each after the one
\* before it has settled; it returns the responses of the calls that
\* succeeded in call order and never throws because a call failed: when
\* every call fails it returns the empty list.
C27_SuggestionsCollected ==
    sop = "getSuggestions" =>
        /\ Len(scalls) <= Max(0, Min(scount, 3))
        /\ \A k \in 1..(Len(scalls) - 1) : scalls[k].outcome # "pending"
        /\ spc = "thrown" => (currentProvider = NoProvider /\ scalls = <<>>)
        /\ currentProvider # NoProvider => spc # "thrown"
        /\ spc = "returned" =>
               /\ Len(scalls) = Max(0, Min(scount, 3))
               /\ sreturned = Returned(SucceededFrom(scalls, 1))
               /\ (\A k \in 1..Len(scalls) : scalls[k].outcome = "error")
                      => sreturned = Returned(<<>>)

C27_Witness ==
    /\ sop = "getSuggestions"
    /\ spc = "returned"
    /\ scount = 4
    /\ Len(scalls) = 3
    /\ scalls[1].outcome = "ok"
    /\ scalls[2].outcome = "error"
    /\ scalls[3].outcome = "ok"
    /\ sreturned = Returned(<<ResponseTo(1), ResponseTo(3)>>)

\* C28: the k-th call of resolve issued by getSuggestions is made with the
\* k-th value of the sequence 0.2, 0.5, 0.8, so the calls for one conflict
\* differ in that parameter.
C28_AscendingTemperatures ==
    sop = "getSuggestions" =>
        \A k \in 1..Len(scalls) : scalls[k].temperature = temperatures[k]

\* C29: resolveConflict builds its request from the conflict's
\* currentContent, incomingContent, baseContent and filePath, the document's
\* language and the context extracted with the configured number of context
\* lines, N lines before and N lines after the conflict.
C29_ConfiguredContext ==
    (sop = "resolveConflict" /\ Len(scalls) = 1) =>
        LET request == scalls[1].request
        IN  /\ request.currentContent = sconflict.currentContent
            /\ request.incomingContent = sconflict.incomingContent
            /\ request.filePath = sconflict.filePath
            /\ request.language = slanguage
            /\ Defined(request, "baseContent") = Defined(sconflict, "baseContent")
            /\ Defined(request, "baseContent")
                   => request.baseContent = sconflict.baseContent
            /\ request.context =
                   extractContext(sdoc, sconflict, configuredContextLines)

-----------------------------------------------------------------------------
(* Properties of ConfigurationManager *)

\* C30: for every setting, once its setter has been called with a value the
\* next call of its getter returns that value, and getAllSettings reports
\* the same value.
C30_SetThenGet ==
    /\ (cop.kind = "get" /\ lastSet[cop.key] # JSUndefined)
           => cresult = lastSet[cop.key]
    /\ cop.kind = "getAllSettings"
           => \A key \in SettingKeys :
                  lastSet[key] # JSUndefined => cresult[key] = lastSet[key]

-----------------------------------------------------------------------------
(* Properties of the prompt *)

\* the piece is part of the prompt
Includes(prompt, piece) == \E k \in 1..Len(prompt) : prompt[k] = piece

\* the prompt has the section of the common ancestor
HasBaseSection(prompt) == Includes(prompt, Fixed("BASE VERSION (common ancestor):"))

\* the parts every prompt has
AlwaysIncluded(call) ==
    /\ Includes(call.prompt, Interpolated(call.request.filePath))
    /\ Includes(call.prompt, Fixed("CURRENT VERSION (HEAD):"))
    /\ Includes(call.prompt, Interpolated(call.request.currentContent))
    /\ Includes(call.prompt, Fixed("INCOMING VERSION:"))
    /\ Includes(call.prompt, Interpolated(call.request.incomingContent))
    /\ Includes(call.prompt, Interpolated(call.request.context))
    /\ Includes(call.prompt, Fixed("Respond in JSON format:"))

\* C31 as stated: every prompt includes the file path, the current section,
\* the incoming section, the context and the request for JSON, and it has the
\* base section exactly when the request has a baseContent.
C31_BaseWhenPresent ==
    \A k \in 1..Len(scalls) :
        /\ AlwaysIncluded(scalls[k])
        /\ HasBaseSection(scalls[k].prompt)
               <=> Defined(scalls[k].request, "baseContent")

\* C31, amended: every prompt includes the file path, the current section, the
\* incoming section, the context and the request for JSON, and it has the base
\* section, with the baseContent in it, exactly when the request's baseContent
\* is a non-empty string; a request whose baseContent is absent or the empty
\* string gets no base section.
C31_BaseWhenNotEmpty ==
    \A k \in 1..Len(scalls) :
        /\ AlwaysIncluded(scalls[k])
        /\ HasBaseSection(scalls[k].prompt) <=> HasBaseContent(scalls[k].request)
        /\ HasBaseSection(scalls[k].prompt)
               => Includes(scalls[k].prompt,
                           Interpolated(scalls[k].request.baseContent))

\* a prompt was built for a conflict whose base section is one empty line
C31_Witness ==
    /\ Len(scalls) >= 1
    /\ Defined(scalls[1].request, "baseContent")
    /\ scalls[1].request.baseContent = <<>>
    /\ ~HasBaseSection(scalls[1].prompt)

-----------------------------------------------------------------------------
(* Properties of the parser's branches *)

\* the loop is about to read a line
AtLine == dpc = "loop" /\ i < Len(lines)

\* C32: a start-marker line read outside a conflict records startLine and
\* currentStart = line + 1, clears the three buffers and opens the current
\* section; a start-marker line read while a block is open leaves the open
\* block's startLine and the buffers as they are.
C32_StartOnlyOutside ==
    [][AtLine /\ conflictStartPattern(lines[i + 1]) =>
          IF det.inConflict
          THEN /\ det'.inConflict
               /\ det'.currentConflict.startLine = det.currentConflict.startLine
               /\ det'.currentContent = det.currentContent
               /\ det'.baseContent = det.baseContent
               /\ det'.incomingContent = det.incomingContent
          ELSE /\ det'.inConflict
               /\ det'.currentConflict.startLine = i
               /\ det'.currentConflict.currentStart = i + 1
               /\ det'.section = "current"
               /\ det'.currentContent = <<>>
               /\ det'.baseContent = <<>>
               /\ det'.incomingContent = <<>>]_vars

\* the document lines a..b (0-based, inclusive) joined by newline
JoinedLines(a, b) == Join([k \in 1..(b - a + 1) |-> lines[a + k]])

\* line b is a base marker of the block of c, before its separator, and the
\* base content of c is what stands between the two
BaseBeforeSeparator(c, b) ==
    /\ conflictBasePattern(lines[b + 1])
    /\ c.startLine < b
    /\ b < c.separatorLine
    /\ c.baseContent = JoinedLines(b + 1, c.separatorLine - 1)

\* C33: a returned conflict with baseContent has a base-marker line strictly
\* between its startLine and its separatorLine, and its baseContent is the
\* lines between that marker and the separator; a base marker after the
\* separator never yields a conflict with baseContent.
C33_BaseBeforeSeparator ==
    dpc = "done" =>
        \A k \in 1..Len(detected) :
            Defined(detected[k], "baseContent") =>
                /\ Defined(detected[k], "separatorLine")
                /\ \E b \in LineIdx : BaseBeforeSeparator(detected[k], b)

\* the block of c holds no base-marker line
NoBaseMarkerIn(c) ==
    \A k \in c.startLine..c.endLine : ~conflictBasePattern(lines[k + 1])

\* C34: for every returned conflict, incomingContent is the document lines
\* incomingStart..incomingEnd joined by newline, and when the block holds no
\* base-marker line currentContent is the document lines
\* currentStart..currentEnd joined by newline, also when a separator line
\* occurs more than once in the block.  Records without a separator (C3) are
\* left aside.
C34_ContentMatchesSpans ==
    dpc = "done" =>
        \A k \in 1..Len(detected) :
            CompleteRecord(detected[k]) =>
                /\ detected[k].incomingContent
                       = JoinedLines(detected[k].incomingStart,
                                     detected[k].incomingEnd)
                /\ NoBaseMarkerIn(detected[k]) =>
                       detected[k].currentContent
                           = JoinedLines(detected[k].currentStart,
                                         detected[k].currentEnd)

\* seven characters c, whitespace, and a label that begins with a character
\* that is not whitespace: ^c{7}\s+\S.*$
Labelled(c, s) ==
    /\ Len(s) >= 9
    /\ \A k \in 1..7 : s[k] = c
    /\ \E w \in 8..(Len(s) - 1) :
          /\ \A k \in 8..w : s[k] \in Whitespace
          /\ s[w + 1] \notin Whitespace
          /\ \A k \in (w + 1)..Len(s) : s[k] \notin LineTerminator

\* seven characters c, whitespace, and any label, also none: ^c{7}\s+.*$
MaybeLabelled(c, s) ==
    /\ Len(s) >= 8
    /\ \A k \in 1..7 : s[k] = c
    /\ \E w \in 8..Len(s) :
          /\ \A k \in 8..w : s[k] \in Whitespace
          /\ \A k \in (w + 1)..Len(s) : s[k] \notin LineTerminator

\* what the step from det to det' shows of the branch taken
StartRecognised ==
    /\ det'.inConflict
    /\ det'.currentConflict # null
    /\ det'.currentConflict.startLine = i
    /\ ~Defined(det'.currentConflict, "separatorLine")

SeparatorRecognised ==
    /\ det'.currentConflict # null
    /\ Defined(det'.currentConflict, "separatorLine")
    /\ det'.currentConflict.separatorLine = i

EndRecognised == det.inConflict /\ ~det'.inConflict

BaseRecognised ==
    /\ det'.inConflict
    /\ det'.section = "base"
    /\ det'.currentConflict = det.currentConflict
    /\ det'.baseContent = det.baseContent

\* the branches the parser takes on the line it reads agree with the four
\* recognisers given
RecognisedAs(start(_), base(_), end(_)) ==
    AtLine =>
        /\ StartRecognised <=> start(lines[i + 1])
        /\ (det.inConflict /\ ~start(lines[i + 1])) =>
               /\ SeparatorRecognised <=> lines[i + 1] = Rep("=", 7)
               /\ BaseRecognised <=> base(lines[i + 1])
               /\ EndRecognised <=> end(lines[i + 1])
        /\ (~det.inConflict /\ ~start(lines[i + 1])) => det' = det

-----------------------------------------------------------------------------
(* Properties of the list of results of resolveAllConflicts *)

\* C36: in the returned list every result is consistent: applied = true
\* implies that error is absent and applied = false implies that error is
\* present, also for a conflict whose first apply failed and whose retry
\* succeeded.
C36_AppliedXorError ==
    pc = "returned" =>
        \A k \in 1..Len(returned) :
            returned[k].applied <=> returned[k].error = undefined

\* the conflicts whose resolve was started and has led to a result
Recorded ==
    IF pc \in {"resolving", "applying"} THEN resolvedCount - 1 ELSE resolvedCount

\* a result for the conflict in hand is put at the end of the list
AppendsOne ==
    /\ pc \in {"resolving", "applying"}
    /\ Len(results') = Len(results) + 1
    /\ SubSeq(results', 1, Len(results)) = results
    /\ Last(results').conflict = CurrentConflict

\* the retry writes `applied` of the last result and nothing else
RetryOverwrites ==
    /\ pc = "retryApplying"
    /\ Len(results') = Len(results)
    /\ \A k \in 1..Len(results) :
          results'[k] = IF k = Len(results)
                        THEN [results[k] EXCEPT !.applied = results'[k].applied]
                        ELSE results[k]

\* C37: the list of results holds one entry for each conflict whose resolve
\* was started, whether it succeeded or failed; a step either appends the
\* entry of the conflict in hand or, at the retry, overwrites `applied` of the
\* most recent entry; entries are never removed, reordered or duplicated, and
\* an entry is overwritten by at most one retry.
C37_AppendOnly ==
    /\ [](pc # "idle" =>
             /\ Len(results) = Recorded
             /\ \A j, k \in 1..Len(results) :
                    j # k => results[j].conflict # results[k].conflict)
    /\ [][pc # "idle" =>
             \/ results' = results
             \/ AppendsOne
             \/ RetryOverwrites]_vars
    /\ [][pc = "retryApplying" =>
             /\ pc' # "retryPrompt"
             /\ results' # results => pc' # "retryApplying"]_vars

\* two conflicts were attempted: the entry of the first was overwritten by a
\* retry, the second failed to resolve, and both entries are returned in the
\* order of the attempts
C37_Witness ==
    /\ pc = "returned"
    /\ resolvedCount = 2
    /\ Len(returned) = 2
    /\ returned[1].applied
    /\ returned[1].error = "Failed to apply edit"
    /\ returned[2].error = "backend unreachable"

\* the step is the return of the last of the overlapping switchProvider
\* calls: tasks[k] returns, it has overlapped with another call, and no
\* switchProvider call is left in progress
LastOverlappingReturns(k) ==
    /\ SwitchReturns(k)
    /\ tasks[k].op = "switchProvider"
    /\ tasks[k].latest # "none"
    /\ SwitchesInProgress = {k}

\* C38: when two switchProvider calls overlap, the second being called while
\* the first awaits its configuration, the credential prompt or the
\* validation, then after both have returned the active provider is of the
\* type the later call asked for.
C38_LaterSwitchWins ==
    [][\A k \in 1..Len(tasks) :
           LastOverlappingReturns(k) => currentProvider'.kind = tasks[k].latest]_vars

\* the step sends a request of resolveConflict or resolveAllConflicts to the
\* provider that getProvider() has just returned
SendsRequest ==
    /\ orch.op \in {"resolveConflict", "resolveAllConflicts"}
    /\ orch.pc = "loop"
    /\ orch'.pc = "awaiting"

\* C39: once clearApiKey(kind) has completed the cleared key is no longer
\* used: a later resolve through getProvider() sends no request that carries
\* a key of a kind whose stored key is cleared.
C39_ClearedKeyUnused ==
    [][(/\ SendsRequest
        /\ currentProvider.kind \in HostedKinds
        /\ currentProvider.apiKey # "")
           => secrets[currentProvider.kind] = currentProvider.apiKey]_vars

====
